---- MODULE Spec2Model ----
(***************************************************************************)
(* A model of the NT-LEWD scoring engine (lewd_scoring.py): configuration  *)
(* resolution, the piecewise scaler, the payer and desperation axes, the   *)
(* weighted total and the enrichment loader.                               *)
(*                                                                         *)
(* Numbers.  A Python float is modelled as an exact rational [n, d] with   *)
(* d > 0, kept in lowest terms; d = 0 is NaN.  Text is a tuple of          *)
(* one-character strings, so that strip(), lower() and `in` are computed.  *)
(***************************************************************************)
EXTENDS Integers, Sequences, FiniteSets, TLC

VARIABLES
    grid,       \* unit of the scaler's measures: "unit" = 1, "quarternano" = 2.5e-10
    scTh,       \* _piecewise_scale: the thresholds mapping under test
    scPrev,     \* _piecewise_scale: the call before the last one
    scLast,     \* _piecewise_scale: the last call, [value, result]
    dsArgs,     \* _score_desperate: the arguments of the call
    dsRet,      \* _score_desperate: the value returned
    rwArgs,     \* score_row: row, cfg, pain_map, buyer_map
    rwRet,      \* score_row: the ScoreResult returned, or the exception raised
    yaml,       \* whether the PyYAML module was importable (lewd_scoring.yaml is not None)
    lcArgs,     \* load_config: the path argument and the file behind it
    lcRet,      \* load_config: the configuration returned, or the error raised
    csvArgs,    \* load_optional_csv: the path argument and the file behind it
    csvRet,     \* load_optional_csv: the mapping returned, or the error raised
    fArgs,      \* score_file: the arguments and the files behind the paths
    fPc,        \* score_file: the statement it is at
    fCfg,       \* score_file: cfg, as load_config returned it
    fRows,      \* score_file: rows, as load_trends returned them
    fPain,      \* score_file: pain_map, as load_optional_csv returned it
    fBuyer,     \* score_file: buyer_map, as load_optional_csv returned it
    fScored,    \* score_file: the records scored so far
    fOut,       \* the scored CSV file on disk
    fPreview,   \* the rows of the preview table printed
    fLog,       \* the calls score_file has made, in order
    bArgs,      \* a batch: the records, cfg, pain_map and buyer_map as built
    bShared,    \* the same four objects as they are now
    bAlone,     \* the result of score_row for each record, scored with nothing else
    bRes,       \* the result of score_row for each record scored so far
    bOrder,     \* the records scored so far, in the order they were scored
    ckArgs,     \* collect_keywords: the keywords argument
    ckPc,       \* collect_keywords: in the loop, returned, or left by an exception
    ckNext,     \* collect_keywords: the position of the next keyword of the loop
    ckSeen,     \* collect_keywords: seen
    ckCalls,    \* the keywords the client's interest_over_time was called with, in order
    ckRecords,  \* collect_keywords: records
    rtArgs,     \* GoogleTrendsClient: retries and backoff
    rtPc,       \* interest_over_time: about to attempt, about to sleep, returned, raised
    rtAttempt,  \* interest_over_time: attempt
    rtUpstream, \* what each upstream attempt so far came to
    rtSleeps,   \* the arguments of the time.sleep calls so far
    rtRet,      \* interest_over_time: the frame returned, or the error raised
    hpHeap,     \* the dicts and lists of the process, by identity
    hpReturned, \* the load_config calls so far: path, root returned, value at return
    hpSteps     \* calls and mutations so far

scaleVars == <<grid, scTh, scPrev, scLast>>

desperateVars == <<dsArgs, dsRet>>

rowVars == <<rwArgs, rwRet>>

configVars == <<yaml, lcArgs, lcRet>>

csvVars == <<csvArgs, csvRet>>

fileVars == <<fArgs, fPc, fCfg, fRows, fPain, fBuyer, fScored, fOut, fPreview, fLog>>

batchVars == <<bArgs, bShared, bAlone, bRes, bOrder>>

collectVars == <<ckArgs, ckPc, ckNext, ckSeen, ckCalls, ckRecords>>

retryVars == <<rtArgs, rtPc, rtAttempt, rtUpstream, rtSleeps, rtRet>>

heapVars == <<hpHeap, hpReturned, hpSteps>>

laterVars == <<fileVars, batchVars, collectVars, retryVars, heapVars>>

vars == <<scaleVars, desperateVars, rowVars, configVars, csvVars, laterVars>>

Idle == [t |-> "idle"]

\* No call of the scaler made yet.
NoCall == [value |-> [n |-> 0, d |-> 0], result |-> [n |-> 0, d |-> 0], made |-> FALSE]

\* The parts of the state a specification does not use stay as they are here.
ScaleIdle == scTh = Idle /\ scPrev = NoCall /\ scLast = NoCall

DesperateIdle == dsArgs = Idle /\ dsRet = Idle

RowIdle == rwArgs = Idle /\ rwRet = Idle

ConfigIdle == yaml = FALSE /\ lcArgs = Idle /\ lcRet = Idle

CsvIdle == csvArgs = Idle /\ csvRet = Idle

FileIdle ==
    /\ fArgs = Idle
    /\ fPc = "idle"
    /\ fCfg = Idle
    /\ fRows = Idle
    /\ fPain = Idle
    /\ fBuyer = Idle
    /\ fScored = <<>>
    /\ fOut = Idle
    /\ fPreview = <<>>
    /\ fLog = <<>>

BatchIdle ==
    /\ bArgs = Idle
    /\ bShared = Idle
    /\ bAlone = <<>>
    /\ bRes = <<>>
    /\ bOrder = <<>>

CollectIdle ==
    /\ ckArgs = Idle
    /\ ckPc = "idle"
    /\ ckNext = 0
    /\ ckSeen = {}
    /\ ckCalls = <<>>
    /\ ckRecords = <<>>

RetryIdle ==
    /\ rtArgs = Idle
    /\ rtPc = "idle"
    /\ rtAttempt = 0
    /\ rtUpstream = <<>>
    /\ rtSleeps = <<>>
    /\ rtRet = Idle

HeapIdle == hpHeap = <<>> /\ hpReturned = <<>> /\ hpSteps = 0

\* The state outside lewd_scoring's scoring functions, untouched.
CoreIdle ==
    /\ grid = "unit"
    /\ ScaleIdle
    /\ DesperateIdle
    /\ RowIdle
    /\ ConfigIdle
    /\ CsvIdle

TrendsIdle == CollectIdle /\ RetryIdle /\ HeapIdle

LaterIdle == FileIdle /\ BatchIdle /\ TrendsIdle

(***************************************************************************)
(* Bounds of the model.                                                    *)
(***************************************************************************)
MaxThreshold == 3
MaxBins == 2
MaxBinMax == 2
MaxCsvRows == 2

(***************************************************************************)
(* Floats as rationals.                                                    *)
(***************************************************************************)
Abs(i) == IF i < 0 THEN -i ELSE i

RECURSIVE GCD(_, _)
GCD(a, b) == IF b = 0 THEN a ELSE GCD(b, a % b)

NaN == [n |-> 0, d |-> 0]

Q(n, d) ==
    IF d = 0 THEN NaN
    ELSE LET g == GCD(Abs(n), Abs(d))
             s == IF d < 0 THEN -1 ELSE 1
         IN  [n |-> (s * n) \div g, d |-> (s * d) \div g]

Num(i) == [n |-> i, d |-> 1]

IsNaN(x) == x.d = 0

Floor(x) == x.n \div x.d

\* x <= y on floats; every comparison with NaN is false.  Whole parts are
\* compared first so that a tiny fraction such as 1e-9 is never cross-multiplied
\* with a large numerator.
Le(x, y) ==
    /\ ~IsNaN(x)
    /\ ~IsNaN(y)
    /\ LET fx == Floor(x)
           fy == Floor(y)
           rx == x.n - fx * x.d
           ry == y.n - fy * y.d
       IN  IF fx # fy THEN fx < fy
           ELSE IF rx = 0 THEN TRUE
           ELSE IF ry = 0 THEN FALSE
           ELSE rx * y.d <= ry * x.d

Lt(x, y) == ~IsNaN(x) /\ ~IsNaN(y) /\ ~Le(y, x)

Add(x, y) == IF IsNaN(x) \/ IsNaN(y) THEN NaN ELSE Q(x.n * y.d + y.n * x.d, x.d * y.d)

Sub(x, y) == IF IsNaN(x) \/ IsNaN(y) THEN NaN ELSE Q(x.n * y.d - y.n * x.d, x.d * y.d)

Mul(x, y) == IF IsNaN(x) \/ IsNaN(y) THEN NaN ELSE Q(x.n * y.n, x.d * y.d)

\* x / y for y # 0 (the callers guard the divisor).
Div(x, y) == IF IsNaN(x) \/ IsNaN(y) THEN NaN ELSE Q(x.n * y.d, x.d * y.n)

\* Python's max(a, b): b only when b > a.
PyMax(a, b) == IF Lt(a, b) THEN b ELSE a

\* Python's min(a, b): b only when b < a.
PyMin(a, b) == IF Lt(b, a) THEN b ELSE a

\* dict.get(key, default)
Get(m, k, default) == IF k \in DOMAIN m THEN m[k] ELSE default

(***************************************************************************)
(* _piecewise_scale                                                        *)
(***************************************************************************)
\* The literal 1e-9 of the span guard, in the grid's unit.
EPS == IF grid = "quarternano" THEN Num(4) ELSE [n |-> 1, d |-> 1000000000]

HALF == Q(25, 2)

\* The scaler with the upper segment interpolated from low instead of mid.
_piecewise_scale_lowbase(value, thresholds) ==
    LET low  == Get(thresholds, "low", Num(0))
        mid  == Get(thresholds, "mid", low)
        high == Get(thresholds, "high", mid)
    IN  IF Le(value, low) THEN Num(0)
        ELSE IF Le(high, value) THEN Num(25)
        ELSE IF Le(value, mid)
             THEN LET span == PyMax(Sub(mid, low), EPS)
                  IN  Mul(Div(Sub(value, low), span), HALF)
             ELSE LET span == PyMax(Sub(high, mid), EPS)
                  IN  Add(HALF, Mul(Div(Sub(value, low), span), HALF))

_piecewise_scale(value, thresholds) ==
    LET low  == Get(thresholds, "low", Num(0))
        mid  == Get(thresholds, "mid", low)
        high == Get(thresholds, "high", mid)
    IN  IF Le(value, low) THEN Num(0)
        ELSE IF Le(high, value) THEN Num(25)
        ELSE IF Le(value, mid)
             THEN LET span == PyMax(Sub(mid, low), EPS)
                  IN  Mul(Div(Sub(value, low), span), HALF)
             ELSE LET span == PyMax(Sub(high, mid), EPS)
                  IN  Add(HALF, Mul(Div(Sub(value, mid), span), HALF))

(***************************************************************************)
(* Text: str.lower(), str.strip() and the `in` test on strings.            *)
(***************************************************************************)
UpperToLower ==
    [A |-> "a", B |-> "b", C |-> "c", D |-> "d", E |-> "e", F |-> "f", G |-> "g",
     H |-> "h", I |-> "i", J |-> "j", K |-> "k", L |-> "l", M |-> "m", N |-> "n",
     O |-> "o", P |-> "p", Q |-> "q", R |-> "r", S |-> "s", T |-> "t", U |-> "u",
     V |-> "v", W |-> "w", X |-> "x", Y |-> "y", Z |-> "z"]

LowerChar(c) == IF c \in DOMAIN UpperToLower THEN UpperToLower[c] ELSE c

Lower(s) == [i \in 1..Len(s) |-> LowerChar(s[i])]

Whitespace == {" ", "\t"}

Strip(s) ==
    LET kept == {i \in 1..Len(s) : s[i] \notin Whitespace}
    IN  IF kept = {} THEN <<>>
        ELSE LET first == CHOOSE i \in kept : \A j \in kept : i <= j
                 last  == CHOOSE i \in kept : \A j \in kept : j <= i
             IN  SubSeq(s, first, last)

\* t in s
Contains(t, s) == \E i \in 0..(Len(s) - Len(t)) : SubSeq(s, i + 1, i + Len(t)) = t

\* Keywords the specifications draw.
KwUrgent == <<"u", "r", "g", "e", "n", "t", " ", "p", "a", "s", "s", "p", "o", "r", "t", " ", "r", "e", "n", "e", "w", "a", "l">>

KwTherapy == <<"a", "i", " ", "t", "h", "e", "r", "a", "p", "y">>

KwShout == <<"U", "R", "G", "E", "N", "T", " ", "N", "e", "e", "d">>

KwTherapySpaced == <<" ", "A", "I", " ", "T", "h", "e", "r", "a", "p", "y", " ">>

(***************************************************************************)
(* Python values that are not floats: None, and the optional float.        *)
(***************************************************************************)
PyNone == [t |-> "None"]

PyStr(s) == [t |-> "str", s |-> s]

PyInt(i) == [t |-> "int", i |-> i]

PyFloat(x) == [t |-> "float", f |-> x]

\* bool(v)
Truthy(v) ==
    CASE v.t = "None" -> FALSE
      [] v.t = "str" -> v.s # <<>>
      [] v.t = "int" -> v.i # 0
      [] v.t = "float" -> v.f # Num(0)

Digits == <<"0", "1", "2", "3", "4", "5", "6", "7", "8", "9">>

IsDigit(c) == \E i \in 1..10 : Digits[i] = c

DigitValue(c) == (CHOOSE i \in 1..10 : Digits[i] = c) - 1

RECURSIVE DigitsValue(_)
DigitsValue(s) ==
    IF s = <<>> THEN 0
    ELSE 10 * DigitsValue(SubSeq(s, 1, Len(s) - 1)) + DigitValue(s[Len(s)])

RECURSIVE Pow10(_)
Pow10(k) == IF k = 0 THEN 1 ELSE 10 * Pow10(k - 1)

AllDigits(s) == \A i \in 1..Len(s) : IsDigit(s[i])

Unsigned(s) == IF s # <<>> /\ s[1] \in {"+", "-"} THEN Tail(s) ELSE s

SignOf(s) == IF s # <<>> /\ s[1] = "-" THEN -1 ELSE 1

\* int(text) on stripped text of signs and decimal digits: [ok, i].
ParseInt(s) ==
    LET body == Unsigned(Strip(s))
    IN  IF body # <<>> /\ AllDigits(body)
        THEN [ok |-> TRUE, i |-> SignOf(Strip(s)) * DigitsValue(body)]
        ELSE [ok |-> FALSE, i |-> 0]

\* float(text) on text of signs, decimal digits, one point, and "nan" in any
\* case: [ok, f].  Exponents, underscores and infinities are not in the texts
\* the model draws.
ParseFloat(s) ==
    LET body == Unsigned(Strip(s))
        points == {i \in 1..Len(body) : body[i] = "."}
        dot == IF points = {} THEN Len(body) + 1 ELSE CHOOSE i \in points : TRUE
        whole == SubSeq(body, 1, dot - 1)
        frac == SubSeq(body, dot + 1, Len(body))
    IN  IF Lower(body) = <<"n", "a", "n">> THEN [ok |-> TRUE, f |-> NaN]
        ELSE IF /\ Cardinality(points) <= 1
                /\ AllDigits(whole)
                /\ AllDigits(frac)
                /\ Len(whole) + Len(frac) > 0
             THEN [ok |-> TRUE,
                   f |-> Q(SignOf(Strip(s)) * (DigitsValue(whole) * Pow10(Len(frac)) + DigitsValue(frac)),
                           Pow10(Len(frac)))]
             ELSE [ok |-> FALSE, f |-> NaN]

\* float(v): [ok, f]; not ok is the ValueError or TypeError float() raises.
ToFloat(v) ==
    CASE v.t = "None" -> [ok |-> FALSE, f |-> NaN]
      [] v.t = "str" -> ParseFloat(v.s)
      [] v.t = "int" -> [ok |-> TRUE, f |-> Num(v.i)]
      [] v.t = "float" -> [ok |-> TRUE, f |-> v.f]

RECURSIVE NatToChars(_)
NatToChars(i) == IF i < 10 THEN <<Digits[i + 1]>> ELSE NatToChars(i \div 10) \o <<Digits[(i % 10) + 1]>>

IntToChars(i) == IF i < 0 THEN <<"-">> \o NatToChars(-i) ELSE NatToChars(i)

\* repr of a float with at most one decimal digit (the floats the model draws).
FloatToChars(x) ==
    IF IsNaN(x) THEN <<"n", "a", "n">>
    ELSE LET tenths == (x.n * 10) \div x.d
             mag == Abs(tenths)
         IN  (IF tenths < 0 THEN <<"-">> ELSE <<>>)
                 \o NatToChars(mag \div 10) \o <<".">> \o NatToChars(mag % 10)

\* str(v)
Str(v) ==
    CASE v.t = "None" -> <<"N", "o", "n", "e">>
      [] v.t = "str" -> v.s
      [] v.t = "int" -> IntToChars(v.i)
      [] v.t = "float" -> FloatToChars(v.f)

(***************************************************************************)
(* _score_desperate                                                        *)
(***************************************************************************)
\* The loop over the bins: the index of the first bucket that takes the pain
\* count, 0 when the loop runs out.
RECURSIVE FirstBucket(_, _, _)
FirstBucket(pain_mentions, bins, i) ==
    IF i > Len(bins) THEN 0
    ELSE IF "max" \notin DOMAIN bins[i] \/ Le(pain_mentions, bins[i]["max"]) THEN i
    ELSE FirstBucket(pain_mentions, bins, i + 1)

\* The loop over the heuristic tokens, from position i with the score so far.
RECURSIVE HeuristicScore(_, _, _, _)
HeuristicScore(heuristics, keyword_lower, i, score) ==
    IF i > Len(heuristics) THEN score
    ELSE HeuristicScore(heuristics, keyword_lower, i + 1,
            IF heuristics[i] # <<>> /\ Contains(heuristics[i], keyword_lower)
            THEN Add(score, Num(3)) ELSE score)

\* The bin branch taken on truthiness of the pain count instead of `is not None`.
_score_desperate_truthy(keyword, pain_mentions, desperate_cfg) ==
    LET bins == Get(desperate_cfg, "bins", <<>>)
        heuristics == [i \in 1..Len(Get(desperate_cfg, "heuristics_keywords", <<>>)) |->
                          Lower(Get(desperate_cfg, "heuristics_keywords", <<>>)[i])]
    IN  IF pain_mentions # PyNone /\ ~IsNaN(pain_mentions) /\ pain_mentions # Num(0)
        THEN LET b == FirstBucket(pain_mentions, bins, 1)
             IN  IF b # 0 THEN Get(bins[b], "score", Num(0))
                 ELSE IF bins # <<>> THEN bins[Len(bins)]["score"] ELSE Num(0)
        ELSE PyMin(HeuristicScore(heuristics, Lower(keyword), 1, Num(7)), Num(25))

\* The bins consulted in ascending order of max instead of the configured order.
_score_desperate_sorted(keyword, pain_mentions, desperate_cfg) ==
    LET bins == Get(desperate_cfg, "bins", <<>>)
        fits == {i \in 1..Len(bins) :
                    "max" \notin DOMAIN bins[i] \/ Le(pain_mentions, bins[i]["max"])}
        Lower_(i, j) == /\ "max" \in DOMAIN bins[i]
                        /\ ("max" \notin DOMAIN bins[j] \/ Lt(bins[i]["max"], bins[j]["max"]))
        best == CHOOSE i \in fits : \A j \in fits :
                    j = i \/ Lower_(i, j) \/ (~Lower_(j, i) /\ i <= j)
        heuristics == [i \in 1..Len(Get(desperate_cfg, "heuristics_keywords", <<>>)) |->
                          Lower(Get(desperate_cfg, "heuristics_keywords", <<>>)[i])]
    IN  IF pain_mentions # PyNone /\ ~IsNaN(pain_mentions)
        THEN IF fits # {} THEN Get(bins[best], "score", Num(0))
             ELSE IF bins # <<>> THEN bins[Len(bins)]["score"] ELSE Num(0)
        ELSE PyMin(HeuristicScore(heuristics, Lower(keyword), 1, Num(7)), Num(25))

\* The heuristic matched against the keyword as typed, without lower-casing it.
_score_desperate_cased(keyword, pain_mentions, desperate_cfg) ==
    LET bins == Get(desperate_cfg, "bins", <<>>)
        heuristics == [i \in 1..Len(Get(desperate_cfg, "heuristics_keywords", <<>>)) |->
                          Lower(Get(desperate_cfg, "heuristics_keywords", <<>>)[i])]
    IN  IF pain_mentions # PyNone /\ ~IsNaN(pain_mentions)
        THEN LET b == FirstBucket(pain_mentions, bins, 1)
             IN  IF b # 0 THEN Get(bins[b], "score", Num(0))
                 ELSE IF bins # <<>> THEN bins[Len(bins)]["score"] ELSE Num(0)
        ELSE PyMin(HeuristicScore(heuristics, keyword, 1, Num(7)), Num(25))

_score_desperate(keyword, pain_mentions, desperate_cfg) ==
    LET bins == Get(desperate_cfg, "bins", <<>>)
        heuristics == [i \in 1..Len(Get(desperate_cfg, "heuristics_keywords", <<>>)) |->
                          Lower(Get(desperate_cfg, "heuristics_keywords", <<>>)[i])]
    IN  IF pain_mentions # PyNone /\ ~IsNaN(pain_mentions)
        THEN LET b == FirstBucket(pain_mentions, bins, 1)
             IN  IF b # 0 THEN Get(bins[b], "score", Num(0))
                 ELSE IF bins # <<>> THEN bins[Len(bins)]["score"] ELSE Num(0)
        ELSE PyMin(HeuristicScore(heuristics, Lower(keyword), 1, Num(7)), Num(25))

(***************************************************************************)
(* DEFAULT_CONFIG                                                          *)
(***************************************************************************)
DefaultBins ==
    << [max |-> Num(0), score |-> Num(4)],
       [max |-> Num(3), score |-> Num(10)],
       [max |-> Num(10), score |-> Num(17)],
       [max |-> Num(30), score |-> Num(22)],
       [max |-> Num(1000000000), score |-> Num(25)] >>

DefaultHeuristics ==
    << <<"n", "e", "e", "d">>,
       <<"u", "r", "g", "e", "n", "t">>,
       <<"s", "t", "u", "c", "k">>,
       <<"b", "r", "o", "k", "e", "n">>,
       <<"f", "a", "i", "l">> >>

DefaultDesperate == [bins |-> DefaultBins, heuristics_keywords |-> DefaultHeuristics]

(***************************************************************************)
(* score_row                                                               *)
(***************************************************************************)
\* A thresholds axis is a mapping or some other YAML value.
AxisMap(m) == [t |-> "map", m |-> m]

AxisScalar(i) == [t |-> "scalar", i |-> i]

DefaultPayers ==
    << [k |-> <<"s", "t", "u", "d", "e", "n", "t">>, v |-> Num(10)],
       [k |-> <<"j", "o", "b", "_", "s", "e", "e", "k", "e", "r">>, v |-> Num(15)],
       [k |-> <<"c", "r", "e", "a", "t", "o", "r">>, v |-> Num(18)],
       [k |-> <<"f", "r", "e", "e", "l", "a", "n", "c", "e", "r">>, v |-> Num(20)],
       [k |-> <<"S", "M", "E">>, v |-> Num(23)],
       [k |-> <<"e", "n", "t", "e", "r", "p", "r", "i", "s", "e">>, v |-> Num(25)] >>

DEFAULT_CONFIG ==
    [weights |-> [large |-> Q(1, 4), early |-> Q(1, 4), who_pays |-> Q(1, 4), desperate |-> Q(1, 4)],
     thresholds |->
        [large |-> AxisMap([low |-> Num(10), mid |-> Num(30), high |-> Num(60)]),
         early |-> AxisMap([low |-> Num(0), mid |-> Num(40), high |-> Num(80)]),
         who_pays |-> AxisMap([map |-> DefaultPayers, unknown_default |-> Num(8)]),
         desperate |-> AxisMap(DefaultDesperate)]]

\* round(x) of a float that is a number: to the nearest integer, a tie to the
\* even one.
RoundHalfUp(x) ==
    LET f == Floor(x)
        twice == 2 * (x.n - f * x.d)
    IN  IF twice >= x.d THEN f + 1 ELSE f

RoundHalfEven(x) ==
    LET f == Floor(x)
        twice == 2 * (x.n - f * x.d)
    IN  IF twice < x.d THEN f
        ELSE IF twice > x.d THEN f + 1
        ELSE IF f % 2 = 0 THEN f ELSE f + 1

\* sum(float(w) for w in weights.values())
RECURSIVE SumValues(_, _)
SumValues(weights, keys) ==
    IF keys = {} THEN Num(0)
    ELSE LET k == CHOOSE x \in keys : TRUE
         IN  Add(weights[k], SumValues(weights, keys \ {k}))

\* The lookup answering with the payer score of the record scored before.
BuyerLookupRemembered(table, key, default) ==
    IF bOrder # <<>> THEN bRes[bOrder[Len(bOrder)]].who_pays
    ELSE LET hits == {i \in 1..Len(table) : Lower(Strip(table[i].k)) = key}
         IN  IF hits = {} THEN default
             ELSE table[CHOOSE i \in hits : \A j \in hits : j <= i].v

\* buyer_lookup.get(key, default): the dict comprehension keeps, for each
\* normalised key, the score of the last table entry that normalises to it.
BuyerLookup(table, key, default) ==
    LET hits == {i \in 1..Len(table) : Lower(Strip(table[i].k)) = key}
    IN  IF hits = {} THEN default
        ELSE table[CHOOSE i \in hits : \A j \in hits : j <= i].v

Raised(row, name) ==
    [status |-> name, row |-> row, large |-> NaN, early |-> NaN, who_pays |-> NaN,
     desperate |-> NaN, total |-> 0]

score_row(row, cfg, pain_map, buyer_map) ==
    LET thresholds == cfg.thresholds
        weights == cfg.weights
        raw_volume == Get(row, "avg_volume", PyInt(0))
        raw_growth == Get(row, "growth_pct", PyInt(0))
        avg_volume == ToFloat(IF Truthy(raw_volume) THEN raw_volume ELSE PyInt(0))
        growth_pct == ToFloat(IF Truthy(raw_growth) THEN raw_growth ELSE PyInt(0))
        keyword == Strip(Str(Get(row, "keyword", PyStr(<<>>))))
        large_axis == Get(thresholds, "large", AxisMap(<<>>))
        early_axis == Get(thresholds, "early", AxisMap(<<>>))
        payer_axis == Get(thresholds, "who_pays", AxisMap(<<>>))
        desperate_axis == Get(thresholds, "desperate", AxisMap(<<>>))
        large_score == _piecewise_scale(avg_volume.f, large_axis.m)
        early_score == _piecewise_scale(growth_pct.f, early_axis.m)
        mapped == IF keyword # <<>> THEN Get(buyer_map, Lower(keyword), PyNone) ELSE PyNone
        buyer == IF mapped # PyNone /\ mapped # PyStr(<<>>)
                 THEN mapped ELSE Get(row, "buyer", PyNone)
        buyer_score == BuyerLookup(Get(payer_axis.m, "map", <<>>), Lower(Strip(Str(buyer))),
                                   Get(payer_axis.m, "unknown_default", Num(8)))
        pain_raw == IF keyword # <<>> THEN Get(pain_map, Lower(keyword), PyNone) ELSE PyNone
        pain_mentions == IF pain_raw # PyNone /\ pain_raw # PyStr(<<>>) /\ ToFloat(pain_raw).ok
                         THEN ToFloat(pain_raw).f ELSE PyNone
        desperate_score == _score_desperate(keyword, pain_mentions, desperate_axis.m)
        summed == SumValues(weights, DOMAIN weights)
        total_weight == IF summed = Num(0) THEN Num(1) ELSE summed
        weighted_sum ==
            Add(Add(Add(Mul(large_score, Get(weights, "large", Num(0))),
                        Mul(early_score, Get(weights, "early", Num(0)))),
                    Mul(buyer_score, Get(weights, "who_pays", Num(0)))),
                Mul(desperate_score, Get(weights, "desperate", Num(0))))
        normalized == Div(weighted_sum, total_weight)
    IN  IF ~avg_volume.ok \/ ~growth_pct.ok THEN Raised(row, "ValueError")
        ELSE IF \E a \in {large_axis, early_axis, payer_axis, desperate_axis} : a.t # "map"
             THEN Raised(row, "AttributeError")
        ELSE IF IsNaN(Mul(normalized, Num(4))) THEN Raised(row, "ValueError")
        ELSE [status |-> "ok", row |-> row, large |-> large_score, early |-> early_score,
              who_pays |-> buyer_score, desperate |-> desperate_score,
              total |-> RoundHalfEven(Mul(normalized, Num(4)))]

(***************************************************************************)
(* load_config                                                             *)
(***************************************************************************)
\* {**a, **b}, dict.update: the keys of both, b's value where both have one.
Merge(a, b) == [k \in DOMAIN a \cup DOMAIN b |-> IF k \in DOMAIN b THEN b[k] ELSE a[k]]

\* A parsed document: a mapping, a list of some length, a scalar, or null.
DocMap(m) == [t |-> "map", m |-> m]

DocList(len) == [t |-> "list", len |-> len]

DocBool(b) == [t |-> "bool", b |-> b]

DocInt(i) == [t |-> "int", i |-> i]

DocNull == [t |-> "null"]

\* not value
Falsy(value) ==
    CASE value.t = "map" -> DOMAIN value.m = {}
      [] value.t = "list" -> value.len = 0
      [] value.t = "bool" -> ~value.b
      [] value.t = "int" -> value.i = 0
      [] value.t = "null" -> TRUE

\* The path argument: None, a path with no file behind it, or a file whose text
\* is empty, or JSON (which is YAML too), or YAML that is not JSON, with the
\* value the text denotes.
NoFile == [t |-> "missing"]

File(text, value) == [t |-> "file", text |-> text, value |-> value]

Returned(config) == [status |-> "ok", config |-> config]

\* The LewdScoringError load_config raises; no configuration comes back.
ConfigError == [status |-> "LewdScoringError"]

\* The parse: yaml.safe_load(raw_text) or {} with PyYAML, json.loads(raw_text
\* or "{}") without it, which fails on text that is not JSON.
Loaded(path) ==
    IF yaml
    THEN [ok |-> TRUE, value |-> IF Falsy(path.value) THEN DocMap(<<>>) ELSE path.value]
    ELSE IF path.text = "empty" THEN [ok |-> TRUE, value |-> DocMap(<<>>)]
    ELSE IF path.text = "json" THEN [ok |-> TRUE, value |-> path.value]
    ELSE [ok |-> FALSE, value |-> DocNull]

\* The merge with every override axis adopted wholesale.
load_config_replace(path) ==
    IF path = PyNone THEN Returned(DEFAULT_CONFIG)
    ELSE IF path.t = "missing" THEN ConfigError
    ELSE IF ~Loaded(path).ok THEN ConfigError
    ELSE IF Loaded(path).value.t # "map" THEN ConfigError
    ELSE LET loaded == Loaded(path).value.m
             merged == DEFAULT_CONFIG
             thresholds == Get(loaded, "thresholds", <<>>)
         IN  Returned([weights |-> Merge(merged.weights, Get(loaded, "weights", <<>>)),
                       thresholds |-> Merge(merged.thresholds, thresholds)])

load_config(path) ==
    IF path = PyNone THEN Returned(DEFAULT_CONFIG)
    ELSE IF path.t = "missing" THEN ConfigError
    ELSE IF ~Loaded(path).ok THEN ConfigError
    ELSE IF Loaded(path).value.t # "map" THEN ConfigError
    ELSE LET loaded == Loaded(path).value.m
             merged == DEFAULT_CONFIG
             merged_weights == Merge(merged.weights, Get(loaded, "weights", <<>>))
             thresholds == Get(loaded, "thresholds", <<>>)
             merged_thresholds ==
                 [key \in DOMAIN merged.thresholds \cup DOMAIN thresholds |->
                     IF key \notin DOMAIN thresholds THEN merged.thresholds[key]
                     ELSE IF key \in DOMAIN merged.thresholds /\ thresholds[key].t = "map"
                          THEN AxisMap(Merge(merged.thresholds[key].m, thresholds[key].m))
                          ELSE thresholds[key]]
         IN  Returned([weights |-> merged_weights, thresholds |-> merged_thresholds])

(***************************************************************************)
(* load_optional_csv                                                       *)
(***************************************************************************)
\* csv.DictReader: the cell of a line under a column, None when the line is
\* too short to have one.
Cell(fieldnames, line, column) ==
    LET at == {i \in 1..Len(fieldnames) : fieldnames[i] = column}
        last == CHOOSE i \in at : \A j \in at : j <= i
    IN  IF at = {} \/ last > Len(line) THEN PyNone ELSE PyStr(line[last])

\* The value of a row as stored: text is stripped and read as an int, else as
\* a float, else kept; blank text becomes "".
Coerce(value) ==
    IF value.t # "str" THEN value
    ELSE LET text == Strip(value.s)
         IN  IF text = <<>> THEN PyStr(<<>>)
             ELSE IF ParseInt(text).ok THEN PyInt(ParseInt(text).i)
             ELSE IF ParseFloat(text).ok THEN PyFloat(ParseFloat(text).f)
             ELSE PyStr(text)

\* The loop over the rows with blank values stored as "" instead of skipped.
RECURSIVE ReadRowsKeepingBlanks(_, _, _, _)
ReadRowsKeepingBlanks(fieldnames, lines, i, mapping) ==
    IF i > Len(lines) THEN mapping
    ELSE LET raw_keyword == Cell(fieldnames, lines[i], "keyword")
             keyword == IF raw_keyword = PyNone THEN <<>> ELSE Strip(raw_keyword.s)
             value_column == CHOOSE c \in {fieldnames[j] : j \in 1..Len(fieldnames)} : c # "keyword"
             value == Coerce(Cell(fieldnames, lines[i], value_column))
         IN  ReadRowsKeepingBlanks(fieldnames, lines, i + 1,
                IF lines[i] = <<>> \/ keyword = <<>> \/ value = PyNone
                THEN mapping
                ELSE (Lower(keyword) :> value) @@ mapping)

\* The loop over the rows, from row i with the mapping built so far.
RECURSIVE ReadRows(_, _, _, _)
ReadRows(fieldnames, lines, i, mapping) ==
    IF i > Len(lines) THEN mapping
    ELSE LET raw_keyword == Cell(fieldnames, lines[i], "keyword")
             keyword == IF raw_keyword = PyNone THEN <<>> ELSE Strip(raw_keyword.s)
             value_column == CHOOSE c \in {fieldnames[j] : j \in 1..Len(fieldnames)} : c # "keyword"
             value == Coerce(Cell(fieldnames, lines[i], value_column))
         IN  ReadRows(fieldnames, lines, i + 1,
                IF lines[i] = <<>> \/ keyword = <<>> \/ value = PyNone \/ value = PyStr(<<>>)
                THEN mapping
                ELSE (Lower(keyword) :> value) @@ mapping)

Table(fieldnames, lines) == [t |-> "file", fieldnames |-> fieldnames, lines |-> lines]

Mapped(mapping) == [status |-> "ok", mapping |-> mapping]

\* The LewdScoringError load_optional_csv raises; no mapping comes back.
CsvError == [status |-> "LewdScoringError"]

\* The loader taking the first other column of a header with several.
load_optional_csv_lenient(path) ==
    IF path = PyNone THEN Mapped(<<>>)
    ELSE IF path.t = "missing" THEN CsvError
    ELSE IF path.fieldnames = <<>>
            \/ "keyword" \notin {path.fieldnames[j] : j \in 1..Len(path.fieldnames)}
         THEN CsvError
    ELSE IF Len(SelectSeq(path.fieldnames, LAMBDA c : c # "keyword")) < 1 THEN CsvError
    ELSE Mapped(ReadRows(path.fieldnames, path.lines, 1, <<>>))

load_optional_csv(path) ==
    IF path = PyNone THEN Mapped(<<>>)
    ELSE IF path.t = "missing" THEN CsvError
    ELSE IF path.fieldnames = <<>>
            \/ "keyword" \notin {path.fieldnames[j] : j \in 1..Len(path.fieldnames)}
         THEN CsvError
    ELSE IF Len(SelectSeq(path.fieldnames, LAMBDA c : c # "keyword")) # 1 THEN CsvError
    ELSE Mapped(ReadRows(path.fieldnames, path.lines, 1, <<>>))

(***************************************************************************)
(* SpecRow: score_row applied to bounded rows, configurations and maps.    *)
(***************************************************************************)
\* All weights zero: total_weight falls back to 1.0.
CfgZero ==
    [DEFAULT_CONFIG EXCEPT !.weights =
        [large |-> Num(0), early |-> Num(0), who_pays |-> Num(0), desperate |-> Num(0)]]

\* A fifth weight that no axis uses: it still counts in total_weight.
CfgExtra ==
    [DEFAULT_CONFIG EXCEPT !.weights =
        [large |-> Q(1, 4), early |-> Q(1, 4), who_pays |-> Q(1, 4), desperate |-> Q(1, 4),
         bonus |-> Num(1)]]

\* Weights that cancel: the sum is zero although the weighted sum is not.
CfgSigned ==
    [DEFAULT_CONFIG EXCEPT !.weights =
        [large |-> Q(1, 2), early |-> Q(-1, 2), who_pays |-> Num(0), desperate |-> Num(0)]]

\* A category table with a "None" category.
CfgNoneCategory ==
    [DEFAULT_CONFIG EXCEPT !.thresholds.who_pays =
        AxisMap([map |-> << [k |-> <<"N", "o", "n", "e">>, v |-> Num(0)], [k |-> <<"s", "m", "e">>, v |-> Num(23)] >>,
                 unknown_default |-> Num(8)])]

\* Calibration under which every axis can score 0.
CfgFloor ==
    [DEFAULT_CONFIG EXCEPT
        !.thresholds.large = AxisMap([low |-> Num(100)]),
        !.thresholds.early = AxisMap([low |-> Num(100), mid |-> Num(200), high |-> Num(300)]),
        !.thresholds.who_pays = AxisMap([unknown_default |-> Num(0)]),
        !.thresholds.desperate = AxisMap([bins |-> << [max |-> Num(1000), score |-> Num(0)] >>])]

RowConfigs == {DEFAULT_CONFIG, CfgZero, CfgExtra, CfgSigned, CfgNoneCategory, CfgFloor}

RowKeywords == {PyStr(KwTherapy), PyStr(KwUrgent), PyStr(KwTherapySpaced), PyStr(<<" ">>)}

RowVolumes ==
    {PyInt(70), PyStr(<<"2", "0">>), PyStr(<<"3", "0">>), PyStr(<<"a", "b", "c">>),
     PyStr(<<"n", "a", "n">>), PyStr(<<>>)}

RowGrowths == {PyInt(90), PyStr(<<"5", "0">>), PyInt(0), PyStr(<<"x">>)}

RowBuyers == {PyStr(<<" ", "S", "M", "E", " ">>), PyStr(<<>>)}

Rows ==
    [keyword : RowKeywords, avg_volume : RowVolumes, growth_pct : RowGrowths]
        \cup [keyword : RowKeywords, avg_volume : RowVolumes, growth_pct : RowGrowths,
              buyer : RowBuyers]

PainMaps ==
    { <<>>,
      KwTherapy :> PyInt(12) @@ KwUrgent :> PyInt(0),
      KwTherapy :> PyInt(100) @@ KwUrgent :> PyStr(<<"a", "b", "c">>),
      KwTherapy :> PyFloat(NaN) @@ KwUrgent :> PyFloat(Q(1, 2)) }

BuyerMaps ==
    { <<>>,
      KwTherapy :> PyStr(<<"e", "n", "t", "e", "r", "p", "r", "i", "s", "e">>),
      KwTherapy :> PyStr(<<>>) @@ KwUrgent :> PyStr(<<" ", "C", "r", "e", "a", "t", "o", "r", " ">>) }

InitRow ==
    /\ LaterIdle
    /\ grid = "unit"
    /\ ScaleIdle
    /\ DesperateIdle
    /\ rwArgs \in [t : {"call"}, row : Rows, cfg : RowConfigs, pain_map : PainMaps,
                    buyer_map : BuyerMaps]
    /\ rwRet = Idle
    /\ ConfigIdle
    /\ CsvIdle

ScoreRow ==
    /\ rwArgs # Idle
    /\ rwRet = Idle
    /\ rwRet' = score_row(rwArgs.row, rwArgs.cfg, rwArgs.pain_map, rwArgs.buyer_map)
    /\ UNCHANGED <<laterVars, scaleVars, desperateVars, rwArgs, configVars, csvVars>>

NextRow == ScoreRow

SpecRow == InitRow /\ [][NextRow]_vars

(***************************************************************************)
(* SpecConfig: load_config applied to bounded override documents, with and *)
(* without PyYAML.                                                         *)
(***************************************************************************)
OverrideWeights ==
    { <<>>,
      [large |-> Q(1, 10)],
      [large |-> Q(1, 10), early |-> Q(3, 5), who_pays |-> Q(1, 5), desperate |-> Q(1, 10)],
      [bonus |-> Num(1)] }

OverrideThresholds ==
    { <<>>,
      [large |-> AxisMap([low |-> Num(5)])],
      [large |-> AxisMap([low |-> Num(5), mid |-> Num(6), high |-> Num(7), knee |-> Num(1)])],
      [large |-> AxisScalar(5)],
      [novel |-> AxisMap([low |-> Num(1)])],
      [large |-> AxisMap([high |-> Num(90)]), novel |-> AxisScalar(3)],
      [who_pays |-> AxisMap([unknown_default |-> Num(0)])],
      [desperate |-> AxisMap([bins |-> <<>>])] }

OverrideMaps ==
    {<<>>, [notes |-> Num(1)]}
        \cup {[weights |-> w] : w \in OverrideWeights}
        \cup {[thresholds |-> th] : th \in OverrideThresholds}
        \cup {[weights |-> w, thresholds |-> th] : w \in OverrideWeights, th \in OverrideThresholds}

OtherDocuments ==
    {DocList(0), DocList(1), DocBool(FALSE), DocBool(TRUE), DocInt(0), DocInt(5), DocNull}

ConfigPaths ==
    {PyNone, NoFile, File("empty", DocNull)}
        \cup {File(text, DocMap(m)) : text \in {"json", "yaml"}, m \in OverrideMaps}
        \cup {File(text, v) : text \in {"json", "yaml"}, v \in OtherDocuments}

InitConfig ==
    /\ LaterIdle
    /\ grid = "unit"
    /\ ScaleIdle
    /\ DesperateIdle
    /\ RowIdle
    /\ CsvIdle
    /\ yaml \in BOOLEAN
    /\ lcArgs \in [t : {"call"}, path : ConfigPaths]
    /\ lcRet = Idle

LoadConfig ==
    /\ lcArgs # Idle
    /\ lcRet = Idle
    /\ lcRet' = load_config(lcArgs.path)
    /\ UNCHANGED <<laterVars, scaleVars, desperateVars, rowVars, yaml, lcArgs, csvVars>>

NextConfig == LoadConfig

SpecConfig == InitConfig /\ [][NextConfig]_vars

(***************************************************************************)
(* SpecCsv: load_optional_csv applied to bounded side tables.              *)
(***************************************************************************)
KeywordCells == {<<"A", "i">>, <<"a", "i", " ">>, <<"b">>, <<" ">>, <<>>}

ValueCells == {<<"1", "2">>, <<" ", "0">>, <<"1", ".", "5">>, <<"x", " ">>, <<" ">>, <<>>}

\* Lines with both cells, lines that stop after the first cell, and the blank
\* line, which DictReader passes over.
CsvLines == {<<k, v>> : k \in KeywordCells, v \in ValueCells}
                \cup {<<k>> : k \in KeywordCells} \cup {<<>>}

CsvHeaders ==
    { <<"keyword", "pain_mentions">>, <<"buyer", "keyword">>, <<"keyword">>,
      <<"keyword", "pain_mentions", "source">>, <<"name", "pain_mentions">>, <<>> }

CsvPaths ==
    {PyNone, NoFile}
        \cup {Table(h, lines) : h \in CsvHeaders,
                                 lines \in UNION {[1..k -> CsvLines] : k \in 0..MaxCsvRows}}

InitCsv ==
    /\ LaterIdle
    /\ grid = "unit"
    /\ ScaleIdle
    /\ DesperateIdle
    /\ RowIdle
    /\ ConfigIdle
    /\ csvArgs \in [t : {"call"}, path : CsvPaths]
    /\ csvRet = Idle

LoadOptionalCsv ==
    /\ csvArgs # Idle
    /\ csvRet = Idle
    /\ csvRet' = load_optional_csv(csvArgs.path)
    /\ UNCHANGED <<laterVars, scaleVars, desperateVars, rowVars, configVars, csvArgs>>

NextCsv == LoadOptionalCsv

SpecCsv == InitCsv /\ [][NextCsv]_vars

(***************************************************************************)
(* SpecDesperate: _score_desperate applied to bounded arguments.           *)
(***************************************************************************)
DesperateKeywords == {KwUrgent, KwTherapy, KwShout, <<>>}

\* Seven one-letter tokens, all of them in KwUrgent; one upper-case.
ManyTokens == << <<"u">>, <<"R">>, <<"g">>, <<"e">>, <<"n">>, <<"t">>, <<"p">> >>

TokenLists == {DefaultHeuristics, ManyTokens, <<>>, << <<>>, <<"n", "e", "e", "d">> >>, << <<"u", "r", "g", "e", "n", "t">>, <<"u", "r", "g", "e", "n", "t">> >>}

BinScores == {Num(0), Num(7), Num(25)}

BinChoices ==
    [max : {Num(i) : i \in 0..MaxBinMax}, score : BinScores] \cup [score : BinScores]

BinLists == UNION {[1..k -> BinChoices] : k \in 0..MaxBins}

PainCounts ==
    {PyNone, NaN, Q(1, 2), Num(5), Num(12), Num(100)} \cup {Num(i) : i \in 0..(MaxBinMax + 1)}

DesperateConfigs ==
    {[bins |-> b, heuristics_keywords |-> DefaultHeuristics] : b \in BinLists}
        \cup {[bins |-> DefaultBins, heuristics_keywords |-> h] : h \in TokenLists}
        \cup {[heuristics_keywords |-> DefaultHeuristics], [bins |-> DefaultBins]}

InitDesperate ==
    /\ LaterIdle
    /\ grid = "unit"
    /\ ScaleIdle
    /\ dsArgs \in [t : {"call"}, keyword : DesperateKeywords, pain_mentions : PainCounts,
                    desperate_cfg : DesperateConfigs]
    /\ dsRet = Idle
    /\ RowIdle
    /\ ConfigIdle
    /\ CsvIdle

ScoreDesperate ==
    /\ dsArgs # Idle
    /\ dsRet = Idle
    /\ dsRet' = [t |-> "ret",
                 score |-> _score_desperate(dsArgs.keyword, dsArgs.pain_mentions,
                                            dsArgs.desperate_cfg)]
    /\ UNCHANGED <<laterVars, scaleVars, dsArgs, rowVars, configVars, csvVars>>

NextDesperate == ScoreDesperate

SpecDesperate == InitDesperate /\ [][NextDesperate]_vars

(***************************************************************************)
(* SpecScale: _piecewise_scale applied to bounded thresholds and values.   *)
(***************************************************************************)
ThresholdKeys == {"low", "mid", "high"}

ThresholdValues == {Num(i) : i \in 0..MaxThreshold}

ScaleThresholds == UNION {[S -> ThresholdValues] : S \in SUBSET ThresholdKeys}

\* The values scored: numbers on the grid, and NaN (float("nan"), which a
\* record's "nan" cell becomes).
ScaleValues == {Num(i) : i \in 0..(MaxThreshold + 1)} \cup {NaN}

InitScale ==
    /\ LaterIdle
    /\ grid \in {"unit", "quarternano"}
    /\ scTh \in ScaleThresholds
    /\ scPrev = NoCall
    /\ scLast = NoCall
    /\ DesperateIdle
    /\ RowIdle
    /\ ConfigIdle
    /\ CsvIdle

Scale ==
    \E v \in ScaleValues :
        /\ scLast' = [value |-> v, result |-> _piecewise_scale(v, scTh), made |-> TRUE]
        /\ scPrev' = scLast
        /\ UNCHANGED <<laterVars, grid, scTh, desperateVars, rowVars, configVars, csvVars>>

NextScale == Scale

SpecScale == InitScale /\ [][NextScale]_vars

(***************************************************************************)
(* load_trends, ScoreResult.to_record, save_scored and score_file          *)
(***************************************************************************)
MaxBatch == 2
MaxTop == 2

Range(seq) == {seq[i] : i \in 1..Len(seq)}

\* required_columns of load_trends, in the order the collector writes them.
TrendColumns == <<"keyword", "geo", "days", "avg_volume", "growth_pct", "last_value">>

TrendsError == [status |-> "LewdScoringError"]

\* dict(row) of csv.DictReader: every column of the header, None for the
\* columns a short line does not reach.
DictRow(fieldnames, line) == [c \in Range(fieldnames) |-> Cell(fieldnames, line, c)]

\* The rows come with the order of their keys, which is the header's.
load_trends(path) ==
    IF path.t = "missing" THEN TrendsError
    ELSE IF Range(TrendColumns) \ Range(path.fieldnames) # {} THEN TrendsError
    ELSE LET lines == SelectSeq(path.lines, LAMBDA line : line # <<>>)
         IN  [status |-> "ok", columns |-> path.fieldnames,
              rows |-> [i \in 1..Len(lines) |-> DictRow(path.fieldnames, lines[i])]]

\* round(x, 2) of a float that is a number.
Round2(x) == Q(RoundHalfEven(Mul(x, Num(100))), 100)

ScoreColumns ==
    <<"large_0_25", "early_0_25", "who_pays_0_25", "desperate_0_25", "lewd_total_0_100">>

\* ScoreResult.to_record: dict(self.row) updated with the five scores.  A dict
\* keeps a key it already has in its place and appends the others in order;
\* columns is the order of the row's keys.
to_record(result, columns) ==
    [columns |-> columns \o SelectSeq(ScoreColumns, LAMBDA c : c \notin Range(columns)),
     values |-> Merge(result.row,
                      [large_0_25 |-> PyFloat(Round2(result.large)),
                       early_0_25 |-> PyFloat(Round2(result.early)),
                       who_pays_0_25 |-> PyFloat(Round2(result.who_pays)),
                       desperate_0_25 |-> PyFloat(Round2(result.desperate)),
                       lewd_total_0_100 |-> PyInt(result.total)])]

\* The header save_scored writes: every key of every row, in order of first
\* appearance.
RECURSIVE Fieldnames(_, _, _)
Fieldnames(row_list, i, fieldnames) ==
    IF i > Len(row_list) THEN fieldnames
    ELSE Fieldnames(row_list, i + 1,
            fieldnames \o SelectSeq(row_list[i].columns, LAMBDA key : key \notin Range(fieldnames)))

\* The file save_scored leaves: the header and one line per row, as the
\* values handed to csv.DictWriter.
save_scored(rows) ==
    [t |-> "file", fieldnames |-> Fieldnames(rows, 1, <<>>),
     lines |-> [i \in 1..Len(rows) |-> rows[i].values]]

TotalOf(record) == record.values["lewd_total_0_100"].i

\* sorted(..., reverse=True) that puts the later of two equal totals first.
RECURSIVE RankedLastFirst(_)
RankedLastFirst(scored) ==
    IF scored = <<>> THEN <<>>
    ELSE LET n == Len(scored)
             before == RankedLastFirst(SubSeq(scored, 1, n - 1))
             ahead == Cardinality({j \in 1..Len(before) : TotalOf(before[j]) > TotalOf(scored[n])})
         IN  SubSeq(before, 1, ahead) \o <<scored[n]>> \o SubSeq(before, ahead + 1, Len(before))

\* sorted(scored, key=lambda r: r["lewd_total_0_100"], reverse=True): each
\* record goes behind every record whose total is at least its own.
RECURSIVE Ranked(_)
Ranked(scored) ==
    IF scored = <<>> THEN <<>>
    ELSE LET n == Len(scored)
             before == Ranked(SubSeq(scored, 1, n - 1))
             ahead == Cardinality({j \in 1..Len(before) : TotalOf(before[j]) >= TotalOf(scored[n])})
         IN  SubSeq(before, 1, ahead) \o <<scored[n]>> \o SubSeq(before, ahead + 1, Len(before))

PreviewHeaders ==
    <<"keyword", "large_0_25", "early_0_25", "who_pays_0_25", "desperate_0_25", "lewd_total_0_100">>

\* [row.get(header, "") for header in preview_headers]
TableRow(record) ==
    [h \in 1..Len(PreviewHeaders) |-> Get(record.values, PreviewHeaders[h], PyStr(<<>>))]

\* The rows of the preview: the first top_n of the ranking.
Preview(scored, top) ==
    LET top_n == IF scored # <<>> THEN (IF top > 1 THEN top ELSE 1) ELSE 0
        ranked == Ranked(scored)
        shown == IF top_n < Len(ranked) THEN top_n ELSE Len(ranked)
    IN  [j \in 1..shown |-> TableRow(ranked[j])]

(***************************************************************************)
(* SpecFile: score_file, statement by statement, on bounded files.         *)
(***************************************************************************)
US == <<"U", "S">>

\* A line of a trends file with the header's number of cells.
TrendLine(keyword, avg_volume, growth_pct, fieldnames) ==
    <<keyword, US, <<"9", "0">>, avg_volume, growth_pct, <<"1">>>>
        \o [i \in 1..(Len(fieldnames) - 6) |-> <<"9">>]

TrendMeasures ==
    { <<KwTherapy, <<"7", "0">>, <<"9", "0">>>>,
      <<KwTherapySpaced, <<"7", "0">>, <<"9", "0">>>>,
      <<KwUrgent, <<"2", "0">>, <<"5", "0">>>>,
      <<KwUrgent, <<"a", "b", "c">>, <<"5", "0">>>> }

\* Headers load_trends accepts: the collector's, and one of a file that has a
\* large_0_25 column already.
TrendHeaders == {TrendColumns, TrendColumns \o <<"large_0_25">>}

TrendLines(fieldnames) == {TrendLine(m[1], m[2], m[3], fieldnames) : m \in TrendMeasures}

TrendPaths ==
    {NoFile, Table(<<"keyword", "avg_volume">>, <<>>)}
        \cup UNION {{Table(h, lines) : lines \in UNION {[1..k -> TrendLines(h)] : k \in 0..MaxBatch}}
                        : h \in TrendHeaders}

FileConfigPaths == {PyNone, NoFile, File("json", DocMap([weights |-> [large |-> Q(1, 10)]]))}

PainPaths ==
    {PyNone, NoFile,
     Table(<<"keyword", "pain_mentions">>, << <<KwTherapy, <<"1", "2">>>> >>)}

BuyerPaths == {PyNone, NoFile}

TopValues == (-1)..MaxTop

\* What is at the output path beforehand: nothing, or an earlier run's file.
OutFiles == {NoFile, [t |-> "file", fieldnames |-> <<"keyword">>, lines |-> <<>>]}

InitFile ==
    /\ grid = "unit"
    /\ ScaleIdle
    /\ DesperateIdle
    /\ RowIdle
    /\ ConfigIdle
    /\ CsvIdle
    /\ BatchIdle
    /\ TrendsIdle
    /\ fArgs \in [t : {"call"}, input_path : TrendPaths, config_path : FileConfigPaths,
                  pain_path : PainPaths, buyers_path : BuyerPaths, top : TopValues,
                  existing : OutFiles]
    /\ fPc = "load_config"
    /\ fCfg = Idle
    /\ fRows = Idle
    /\ fPain = Idle
    /\ fBuyer = Idle
    /\ fScored = <<>>
    /\ fOut = fArgs.existing
    /\ fPreview = <<>>
    /\ fLog = <<>>

\* save_scored without waiting for the comprehension to be through.
FileSaveEarly ==
    /\ fPc = "score"
    /\ fOut' = save_scored(fScored)
    /\ fPc' = "preview"
    /\ fLog' = Append(fLog, "save_scored")
    /\ UNCHANGED <<scaleVars, desperateVars, rowVars, configVars, csvVars, batchVars,
                   collectVars, retryVars, heapVars,
                   fArgs, fCfg, fRows, fPain, fBuyer, fScored, fPreview>>

\* Where score_file goes after a load: on, or out with the error.
After(loaded, next) == IF loaded.status = "ok" THEN next ELSE "raised"

\* cfg = load_config(config_path)
FileLoadConfig ==
    /\ fPc = "load_config"
    /\ fCfg' = load_config(fArgs.config_path)
    /\ fPc' = After(fCfg', "load_trends")
    /\ fLog' = Append(fLog, "load_config")
    /\ UNCHANGED <<scaleVars, desperateVars, rowVars, configVars, csvVars, batchVars,
                   collectVars, retryVars, heapVars,
                   fArgs, fRows, fPain, fBuyer, fScored, fOut, fPreview>>

\* rows = load_trends(input_path)
FileLoadTrends ==
    /\ fPc = "load_trends"
    /\ fRows' = load_trends(fArgs.input_path)
    /\ fPc' = After(fRows', "load_pain")
    /\ fLog' = Append(fLog, "load_trends")
    /\ UNCHANGED <<scaleVars, desperateVars, rowVars, configVars, csvVars, batchVars,
                   collectVars, retryVars, heapVars,
                   fArgs, fCfg, fPain, fBuyer, fScored, fOut, fPreview>>

\* pain_map = load_optional_csv(pain_path)
FileLoadPain ==
    /\ fPc = "load_pain"
    /\ fPain' = load_optional_csv(fArgs.pain_path)
    /\ fPc' = After(fPain', "load_buyers")
    /\ fLog' = Append(fLog, "load_pain")
    /\ UNCHANGED <<scaleVars, desperateVars, rowVars, configVars, csvVars, batchVars,
                   collectVars, retryVars, heapVars,
                   fArgs, fCfg, fRows, fBuyer, fScored, fOut, fPreview>>

\* buyer_map = load_optional_csv(buyers_path)
FileLoadBuyers ==
    /\ fPc = "load_buyers"
    /\ fBuyer' = load_optional_csv(fArgs.buyers_path)
    /\ fPc' = After(fBuyer', "score")
    /\ fLog' = Append(fLog, "load_buyers")
    /\ UNCHANGED <<scaleVars, desperateVars, rowVars, configVars, csvVars, batchVars,
                   collectVars, retryVars, heapVars,
                   fArgs, fCfg, fRows, fPain, fScored, fOut, fPreview>>

\* One turn of the list comprehension: score_row(row, ...).to_record() for the
\* next row; an exception of score_row leaves score_file.
FileScoreRow ==
    /\ fPc = "score"
    /\ Len(fScored) < Len(fRows.rows)
    /\ LET result == score_row(fRows.rows[Len(fScored) + 1], fCfg.config, fPain.mapping,
                               fBuyer.mapping)
       IN  IF result.status = "ok"
           THEN /\ fScored' = Append(fScored, to_record(result, fRows.columns))
                /\ fPc' = "score"
           ELSE /\ fScored' = fScored
                /\ fPc' = "raised"
    /\ fLog' = Append(fLog, "score_row")
    /\ UNCHANGED <<scaleVars, desperateVars, rowVars, configVars, csvVars, batchVars,
                   collectVars, retryVars, heapVars,
                   fArgs, fCfg, fRows, fPain, fBuyer, fOut, fPreview>>

\* save_scored(scored, out_path), once the comprehension is through.
FileSave ==
    /\ fPc = "score"
    /\ Len(fScored) = Len(fRows.rows)
    /\ fOut' = save_scored(fScored)
    /\ fPc' = "preview"
    /\ fLog' = Append(fLog, "save_scored")
    /\ UNCHANGED <<scaleVars, desperateVars, rowVars, configVars, csvVars, batchVars,
                   collectVars, retryVars, heapVars,
                   fArgs, fCfg, fRows, fPain, fBuyer, fScored, fPreview>>

\* The preview table, and the return.
FilePreview ==
    /\ fPc = "preview"
    /\ fPreview' = Preview(fScored, fArgs.top)
    /\ fPc' = "done"
    /\ fLog' = Append(fLog, "preview")
    /\ UNCHANGED <<scaleVars, desperateVars, rowVars, configVars, csvVars, batchVars,
                   collectVars, retryVars, heapVars,
                   fArgs, fCfg, fRows, fPain, fBuyer, fScored, fOut>>

NextFile ==
    \/ FileLoadConfig
    \/ FileLoadTrends
    \/ FileLoadPain
    \/ FileLoadBuyers
    \/ FileScoreRow
    \/ FileSave
    \/ FilePreview

SpecFile == InitFile /\ [][NextFile]_vars

(***************************************************************************)
(* SpecBatch: the records of a batch scored by score_row in any order,     *)
(* with one configuration and one pair of enrichment maps.                 *)
(***************************************************************************)
BatchRows ==
    { [keyword |-> PyStr(KwTherapy), avg_volume |-> PyStr(<<"7", "0">>), growth_pct |-> PyStr(<<"9", "0">>)],
      [keyword |-> PyStr(KwUrgent), avg_volume |-> PyStr(<<"2", "0">>), growth_pct |-> PyStr(<<"5", "0">>),
       buyer |-> PyStr(<<" ", "S", "M", "E", " ">>)],
      [keyword |-> PyStr(KwUrgent), avg_volume |-> PyStr(<<"a", "b", "c">>), growth_pct |-> PyInt(0)] }

Batches == UNION {[1..k -> BatchRows] : k \in 0..MaxBatch}

BatchConfigs == {DEFAULT_CONFIG, CfgFloor}

BatchPainMaps == {<<>>, KwTherapy :> PyInt(12) @@ KwUrgent :> PyInt(0)}

BatchBuyerMaps == {<<>>, KwTherapy :> PyStr(<<"e", "n", "t", "e", "r", "p", "r", "i", "s", "e">>)}

InitBatch ==
    /\ grid = "unit"
    /\ ScaleIdle
    /\ DesperateIdle
    /\ RowIdle
    /\ ConfigIdle
    /\ CsvIdle
    /\ FileIdle
    /\ TrendsIdle
    /\ bArgs \in [t : {"batch"}, rows : Batches, cfg : BatchConfigs, pain_map : BatchPainMaps,
                  buyer_map : BatchBuyerMaps]
    /\ bShared = bArgs
    /\ bOrder = <<>>
    /\ bRes = [i \in 1..Len(bArgs.rows) |-> Idle]
    /\ bAlone = <<>>

\* The reference: score_row for the next record with nothing else scored.
ScoreAlone ==
    /\ Len(bAlone) < Len(bArgs.rows)
    /\ bOrder = <<>>
    /\ bAlone' = Append(bAlone, score_row(bArgs.rows[Len(bAlone) + 1], bArgs.cfg, bArgs.pain_map,
                                          bArgs.buyer_map))
    /\ UNCHANGED <<scaleVars, desperateVars, rowVars, configVars, csvVars, fileVars,
                   collectVars, retryVars, heapVars, bArgs, bShared, bRes, bOrder>>

\* score_row(row, cfg=cfg, pain_map=pain_map, buyer_map=buyer_map) for any
\* record not scored yet.  score_row assigns to nothing it is given.
ScoreAny ==
    \E i \in 1..Len(bShared.rows) :
        /\ Len(bAlone) = Len(bArgs.rows)
        /\ bRes[i] = Idle
        /\ bRes' = [bRes EXCEPT ![i] = score_row(bShared.rows[i], bShared.cfg, bShared.pain_map,
                                                 bShared.buyer_map)]
        /\ bOrder' = Append(bOrder, i)
        /\ UNCHANGED <<scaleVars, desperateVars, rowVars, configVars, csvVars, fileVars,
                       collectVars, retryVars, heapVars, bArgs, bShared, bAlone>>

NextBatch == ScoreAlone \/ ScoreAny

SpecBatch == InitBatch /\ [][NextBatch]_vars

(***************************************************************************)
(* trend_collection.py: TrendCollector.collect_keywords                    *)
(***************************************************************************)
MaxKeywords == 3

\* The key with the keyword's own case.
SeenKeyCased(normalized) == normalized

\* normalized.lower(), the key kept in seen.
SeenKey(normalized) == Lower(normalized)

\* The loop passes a keyword over: blank, or seen before.
Skipped(keyword, seen) == Strip(keyword) = <<>> \/ SeenKey(Strip(keyword)) \in seen

\* collect_keyword's keyword_clean: its argument, stripped once more.
KeywordClean(keyword) == Strip(keyword)

\* TrendRecord.to_row of the record collect_keyword returns; the metrics, which
\* come from the frame, are left out.
to_row(keyword) == [keyword |-> keyword, geo |-> US]

CollectorKeywords == {<<"A", "i">>, <<"a", "i">>, <<" ", "a", "I", " ">>, <<"b">>, <<" ">>}

KeywordLists == UNION {[1..k -> CollectorKeywords] : k \in 0..MaxKeywords}

InitCollect ==
    /\ CoreIdle
    /\ FileIdle
    /\ BatchIdle
    /\ RetryIdle
    /\ HeapIdle
    /\ ckArgs \in [t : {"call"}, keywords : KeywordLists]
    /\ ckPc = "loop"
    /\ ckNext = 1
    /\ ckSeen = {}
    /\ ckCalls = <<>>
    /\ ckRecords = <<>>

\* `continue`: the keyword is blank or was seen.
CollectSkip ==
    /\ ckPc = "loop"
    /\ ckNext <= Len(ckArgs.keywords)
    /\ Skipped(ckArgs.keywords[ckNext], ckSeen)
    /\ ckNext' = ckNext + 1
    /\ UNCHANGED <<scaleVars, desperateVars, rowVars, configVars, csvVars, fileVars, batchVars,
                   retryVars, heapVars, ckArgs, ckPc, ckSeen, ckCalls, ckRecords>>

\* The keyword is collected: the client is called and answers with a frame.
CollectKeyword ==
    /\ ckPc = "loop"
    /\ ckNext <= Len(ckArgs.keywords)
    /\ ~Skipped(ckArgs.keywords[ckNext], ckSeen)
    /\ LET normalized == Strip(ckArgs.keywords[ckNext])
       IN  /\ ckSeen' = ckSeen \cup {SeenKey(normalized)}
           /\ ckCalls' = Append(ckCalls, KeywordClean(normalized))
           /\ ckRecords' = Append(ckRecords, to_row(KeywordClean(normalized)))
    /\ ckNext' = ckNext + 1
    /\ UNCHANGED <<scaleVars, desperateVars, rowVars, configVars, csvVars, fileVars, batchVars,
                   retryVars, heapVars, ckArgs, ckPc>>

\* The client is called and raises (or the frame has no numbers): the
\* exception leaves collect_keywords.
CollectFails ==
    /\ ckPc = "loop"
    /\ ckNext <= Len(ckArgs.keywords)
    /\ ~Skipped(ckArgs.keywords[ckNext], ckSeen)
    /\ LET normalized == Strip(ckArgs.keywords[ckNext])
       IN  /\ ckSeen' = ckSeen \cup {SeenKey(normalized)}
           /\ ckCalls' = Append(ckCalls, KeywordClean(normalized))
    /\ ckPc' = "raised"
    /\ UNCHANGED <<scaleVars, desperateVars, rowVars, configVars, csvVars, fileVars, batchVars,
                   retryVars, heapVars, ckArgs, ckNext, ckRecords>>

\* return records
CollectReturn ==
    /\ ckPc = "loop"
    /\ ckNext > Len(ckArgs.keywords)
    /\ ckPc' = "returned"
    /\ UNCHANGED <<scaleVars, desperateVars, rowVars, configVars, csvVars, fileVars, batchVars,
                   retryVars, heapVars, ckArgs, ckNext, ckSeen, ckCalls, ckRecords>>

NextCollect == CollectSkip \/ CollectKeyword \/ CollectFails \/ CollectReturn

SpecCollect == InitCollect /\ [][NextCollect]_vars

(***************************************************************************)
(* trend_collection.py: GoogleTrendsClient.interest_over_time              *)
(***************************************************************************)
MaxRetries == 3

\* x ** k for a whole k >= 0
RECURSIVE Pow(_, _)
Pow(x, k) == IF k = 0 THEN Num(1) ELSE Mul(x, Pow(x, k - 1))

\* The pause taken to be backoff ** attempt.
SleepForNext(backoff, attempt) == Pow(backoff, attempt)

\* sleep_for = self.backoff ** (attempt - 1)
SleepFor(backoff, attempt) == Pow(backoff, attempt - 1)

\* What an upstream attempt comes to: a frame with data, a frame without
\* (TrendCollectionError is raised in the try block), a response that is no
\* frame (_to_trend_frame raises), or an exception of pytrends.
Upstream == {"data", "empty", "unsupported", "error"}

\* __init__ accepts retries > 0 and backoff > 0.
Backoffs == {Num(2), Num(1), Q(1, 2)}

InitRetry ==
    /\ CoreIdle
    /\ FileIdle
    /\ BatchIdle
    /\ CollectIdle
    /\ HeapIdle
    /\ rtArgs \in [t : {"client"}, retries : 1..MaxRetries, backoff : Backoffs]
    /\ rtPc = "attempt"
    /\ rtAttempt = 1
    /\ rtUpstream = <<>>
    /\ rtSleeps = <<>>
    /\ rtRet = Idle

\* The try block runs through: return frame.
AttemptReturns ==
    /\ rtPc = "attempt"
    /\ rtAttempt <= rtArgs.retries
    /\ rtUpstream' = Append(rtUpstream, "data")
    /\ rtRet' = [status |-> "ok", frame |-> rtAttempt]
    /\ rtPc' = "returned"
    /\ UNCHANGED <<scaleVars, desperateVars, rowVars, configVars, csvVars, fileVars, batchVars,
                   collectVars, heapVars, rtArgs, rtAttempt, rtSleeps>>

\* The except block with attempts left: the pause is still to come.
AttemptFails ==
    /\ rtPc = "attempt"
    /\ rtAttempt <= rtArgs.retries
    /\ rtAttempt # rtArgs.retries
    /\ \E outcome \in Upstream \ {"data"} : rtUpstream' = Append(rtUpstream, outcome)
    /\ rtPc' = "sleep"
    /\ UNCHANGED <<scaleVars, desperateVars, rowVars, configVars, csvVars, fileVars, batchVars,
                   collectVars, heapVars, rtArgs, rtAttempt, rtSleeps, rtRet>>

\* The except block at attempt == self.retries: break, then raise.
AttemptFailsLast ==
    /\ rtPc = "attempt"
    /\ rtAttempt = rtArgs.retries
    /\ \E outcome \in Upstream \ {"data"} : rtUpstream' = Append(rtUpstream, outcome)
    /\ rtRet' = [status |-> "TrendCollectionError"]
    /\ rtPc' = "raised"
    /\ UNCHANGED <<scaleVars, desperateVars, rowVars, configVars, csvVars, fileVars, batchVars,
                   collectVars, heapVars, rtArgs, rtAttempt, rtSleeps>>

\* time.sleep(sleep_for), and the next turn of the loop.
Sleep ==
    /\ rtPc = "sleep"
    /\ rtSleeps' = Append(rtSleeps, SleepFor(rtArgs.backoff, rtAttempt))
    /\ rtAttempt' = rtAttempt + 1
    /\ rtPc' = "attempt"
    /\ UNCHANGED <<scaleVars, desperateVars, rowVars, configVars, csvVars, fileVars, batchVars,
                   collectVars, heapVars, rtArgs, rtUpstream, rtRet>>

NextRetry == AttemptReturns \/ AttemptFails \/ AttemptFailsLast \/ Sleep

SpecRetry == InitRetry /\ [][NextRetry]_vars

\* The upstream call and time.sleep both come back: the loop keeps moving.
SpecRetryLive == SpecRetry /\ WF_vars(NextRetry)

(***************************************************************************)
(* load_config over objects: which dict or list each value is.             *)
(* A heap maps the identity of each object to its kind and items; an item  *)
(* is an atom (a number or a text, immutable) or a reference to an object. *)
(* An object is identified by the call that made it, the expression that   *)
(* made it and its place in the value made there.  A document is a value   *)
(* written out, as JSON or YAML text holds it.                             *)
(***************************************************************************)
MaxSteps == 3

Atom(v) == [t |-> "atom", v |-> v]
Ref(id) == [t |-> "ref", id |-> id]
\* A dict or list without items.
NoItems == [k \in {} |-> Atom("")]
\* a.update(b), {**a, **b}
Update(a, b) == b @@ a
DictOf(items) == [t |-> "dict", items |-> items]
ListKeys == <<"0", "1", "2", "3", "4">>
ListOf(elements) ==
    [t |-> "list",
     items |-> [k \in {ListKeys[i] : i \in 1..Len(elements)} |->
                   elements[CHOOSE i \in 1..Len(elements) : ListKeys[i] = k]]]
Bin(max, score) == DictOf([max |-> Atom(max), score |-> Atom(score)])

\* DEFAULT_CONFIG as written in the module.
DefaultDocument ==
    DictOf([weights |-> DictOf([large |-> Atom("0.25"), early |-> Atom("0.25"),
                                who_pays |-> Atom("0.25"), desperate |-> Atom("0.25")]),
            thresholds |-> DictOf(
                [large |-> DictOf([low |-> Atom("10"), mid |-> Atom("30"), high |-> Atom("60")]),
                 early |-> DictOf([low |-> Atom("0"), mid |-> Atom("40"), high |-> Atom("80")]),
                 who_pays |-> DictOf(
                     [map |-> DictOf([student |-> Atom("10"), job_seeker |-> Atom("15"),
                                      creator |-> Atom("18"), freelancer |-> Atom("20"),
                                      SME |-> Atom("23"), enterprise |-> Atom("25")]),
                      unknown_default |-> Atom("8")]),
                 desperate |-> DictOf(
                     [bins |-> ListOf(<<Bin("0", "4"), Bin("3", "10"), Bin("10", "17"),
                                        Bin("30", "22"), Bin("1000000000", "25")>>),
                      heuristics_keywords |-> ListOf(<<Atom("need"), Atom("urgent"), Atom("stuck"),
                                                       Atom("broken"), Atom("fail")>>)])])])

\* The object made in call number `call` by the expression `site`, at
\* `path` inside the value made there.
Made(call, site) == [call |-> call, site |-> site, path |-> <<>>]
Inside(id, key) == [id EXCEPT !.path = Append(@, key)]

\* json.dumps: the value written out, objects followed to their contents.
RECURSIVE Dumps(_, _)
Dumps(heap, val) ==
    IF val.t = "ref"
    THEN [t |-> heap[val.id].kind,
          items |-> [k \in DOMAIN heap[val.id].items |-> Dumps(heap, heap[val.id].items[k])]]
    ELSE val

\* The objects a parser makes of a document: one for every dict and list.
RECURSIVE Objects(_, _)
Objects(id, document) ==
    IF document.t = "atom"
    THEN {}
    ELSE {[id |-> id, kind |-> document.t,
           items |-> [k \in DOMAIN document.items |->
                         IF document.items[k].t = "atom" THEN document.items[k]
                         ELSE Ref(Inside(id, k))]]}
         \cup UNION {Objects(Inside(id, k), document.items[k]) : k \in DOMAIN document.items}

\* json.loads / yaml.safe_load: the heap with the new objects, and the value.
Parse(heap, id, document) ==
    LET made == Objects(id, document)
        new == [i \in {o.id : o \in made} |->
                   LET o == CHOOSE object \in made : object.id = i
                   IN  [kind |-> o.kind, items |-> o.items]]
    IN  [heap |-> new @@ heap,
         val |-> IF document.t = "atom" THEN document ELSE Ref(id)]

\* The value handed on as it is, no object made.
SameObject(heap, id, val) == [heap |-> heap, val |-> val]

\* json.loads(json.dumps(value))
RoundTrip(heap, id, val) == Parse(heap, id, Dumps(heap, val))

\* dict(value), {**a, **b}: one new dict holding the given items.
NewDict(heap, id, items) ==
    [heap |-> (id :> [kind |-> "dict", items |-> items]) @@ heap, val |-> Ref(id)]

IsMapping(heap, val) == val.t = "ref" /\ heap[val.id].kind = "dict"

\* The objects a value leads to.
RECURSIVE Reach(_, _)
Reach(heap, val) ==
    IF val.t = "ref"
    THEN {val.id} \cup UNION {Reach(heap, heap[val.id].items[k]) : k \in DOMAIN heap[val.id].items}
    ELSE {}

\* The module is imported: DEFAULT_CONFIG is built.
DefaultRoot == Ref(Made(0, "DEFAULT_CONFIG"))
ImportedHeap == Parse(<<>>, DefaultRoot.id, DefaultDocument).heap

\* The files of the object model: no path, an override of a weight, of an
\* item of a known axis, of an axis the defaults lack and of an axis by a
\* number, an empty file, a list at the top level and a missing file.
OverrideDocument ==
    DictOf([weights |-> DictOf([large |-> Atom("0.4")]),
            thresholds |-> DictOf([who_pays |-> DictOf([unknown_default |-> Atom("9")]),
                                   extra |-> DictOf([low |-> Atom("1")]),
                                   early |-> Atom("5")])])
HeapFiles ==
    [none |-> Atom("none"),
     override |-> OverrideDocument,
     empty |-> Atom("null"),
     list |-> ListOf(<<Atom("1")>>),
     missing |-> Atom("missing")]

\* for key, value in thresholds.items(): ... (lines 121-125)
RECURSIVE MergeThresholds(_, _, _, _, _)
MergeThresholds(heap, call, merged_thresholds, thresholds, keys) ==
    IF keys = {}
    THEN [heap |-> heap, items |-> merged_thresholds]
    ELSE LET key == CHOOSE k \in keys : TRUE
             value == thresholds[key]
             both == key \in DOMAIN merged_thresholds /\ IsMapping(heap, value)
             made == NewDict(heap, Inside(Made(call, "{**a, **b}"), key),
                             Update(heap[merged_thresholds[key].id].items, heap[value.id].items))
             next == IF both THEN made ELSE [heap |-> heap, val |-> value]
         IN  MergeThresholds(next.heap, call, Update(merged_thresholds, key :> next.val),
                             thresholds, keys \ {key})

\* load_config(path) as call number `call`: the heap after the call and the
\* object returned.
load_config_objects(heap, call, path) ==
    IF path = "none"
    THEN LET copy == RoundTrip(heap, Made(call, "loads"), DefaultRoot)
         IN  [status |-> "ok", heap |-> copy.heap, val |-> copy.val]
    ELSE IF path = "missing" THEN [status |-> "LewdScoringError", heap |-> heap, val |-> Atom("")]
    ELSE LET document == IF HeapFiles[path] = Atom("null") THEN DictOf(NoItems)
                         ELSE HeapFiles[path]
             loaded == Parse(heap, Made(call, "loaded"), document)
         IN  IF ~IsMapping(loaded.heap, loaded.val)
             THEN [status |-> "LewdScoringError", heap |-> loaded.heap, val |-> Atom("")]
             ELSE
    LET merged == RoundTrip(loaded.heap, Made(call, "merged"), DefaultRoot)
        root == merged.heap[merged.val.id].items
        merged_weights == NewDict(merged.heap, Made(call, "merged_weights"),
                                  merged.heap[root.weights.id].items)
        merged_thresholds == NewDict(merged_weights.heap, Made(call, "merged_thresholds"),
                                     merged.heap[root.thresholds.id].items)
        given == merged.heap[loaded.val.id].items
        weights == IF "weights" \in DOMAIN given THEN merged.heap[given.weights.id].items
                   ELSE NoItems
        thresholds == IF "thresholds" \in DOMAIN given THEN merged.heap[given.thresholds.id].items
                      ELSE NoItems
        looped == MergeThresholds(merged_thresholds.heap, call,
                                  merged_thresholds.heap[merged_thresholds.val.id].items,
                                  thresholds, DOMAIN thresholds)
        stored == [looped.heap EXCEPT
                      ![merged_weights.val.id].items = Update(@, weights),
                      ![merged_thresholds.val.id].items = looped.items,
                      ![merged.val.id].items = Update(@, [weights |-> merged_weights.val,
                                                          thresholds |-> merged_thresholds.val])]
    IN  [status |-> "ok", heap |-> stored, val |-> merged.val]

\* What a caller may do to an object it was handed: obj["x"] = ... on a
\* dict, obj[0] = ... on a list.
Written(object) ==
    [object EXCEPT !.items = Update(@, (IF object.kind = "dict" THEN "x" ELSE "0") :> Atom("written"))]

InitHeap ==
    /\ hpHeap = ImportedHeap
    /\ hpReturned = <<>>
    /\ hpSteps = 0
    /\ CoreIdle
    /\ FileIdle
    /\ BatchIdle
    /\ CollectIdle
    /\ RetryIdle

\* One call of load_config.
HeapLoad ==
    /\ hpSteps < MaxSteps
    /\ \E path \in DOMAIN HeapFiles :
          LET call == load_config_objects(hpHeap, hpSteps + 1, path)
          IN  /\ hpHeap' = call.heap
              /\ hpReturned' = IF call.status = "ok"
                               THEN Append(hpReturned, [path |-> path, val |-> call.val,
                                                        document |-> Dumps(call.heap, call.val)])
                               ELSE hpReturned
    /\ hpSteps' = hpSteps + 1
    /\ UNCHANGED <<scaleVars, desperateVars, rowVars, configVars, csvVars, fileVars, batchVars,
                   collectVars, retryVars>>

\* A caller writes into an object of a configuration it was returned.
HeapMutate ==
    /\ hpSteps < MaxSteps
    /\ \E i \in 1..Len(hpReturned) :
          \E id \in Reach(hpHeap, hpReturned[i].val) :
              hpHeap' = [hpHeap EXCEPT ![id] = Written(@)]
    /\ hpSteps' = hpSteps + 1
    /\ UNCHANGED <<scaleVars, desperateVars, rowVars, configVars, csvVars, fileVars, batchVars,
                   collectVars, retryVars, hpReturned>>

NextHeap == HeapLoad \/ HeapMutate

SpecHeap == InitHeap /\ [][NextHeap]_vars

(***************************************************************************)
(* Claims about _piecewise_scale (checked under SpecScale).                *)
(***************************************************************************)
\* Thresholds that name all three points, in non-decreasing order.
Ordered(th) ==
    /\ DOMAIN th = ThresholdKeys
    /\ Le(th["low"], th["mid"])
    /\ Le(th["mid"], th["high"])

\* r lies on the straight line that takes a to base and b to base + 12.5.
OnLine(r, v, a, b, base) == Mul(Sub(r, base), Sub(b, a)) = Mul(Sub(v, a), HALF)

Monotone ==
    (scPrev.made /\ scLast.made /\ Le(scPrev.value, scLast.value))
        => Le(scPrev.result, scLast.result)

\* C3 as stated: with low <= mid <= high the result is 0 for value <= low, 25
\* for value >= high, the linear interpolation of [low, mid] onto [0, 12.5] for
\* low < value <= mid and of [mid, high] onto [12.5, 25] for mid < value < high,
\* and non-decreasing in value.
C3_AsStated ==
    (scLast.made /\ Ordered(scTh)) =>
        LET v == scLast.value
            r == scLast.result
            low == scTh["low"]
            mid == scTh["mid"]
            high == scTh["high"]
        IN  /\ Le(v, low) => r = Num(0)
            /\ Le(high, v) => r = Num(25)
            /\ (Lt(low, v) /\ Le(v, mid)) => OnLine(r, v, low, mid, Num(0))
            /\ (Lt(mid, v) /\ Lt(v, high)) => OnLine(r, v, mid, high, HALF)
            /\ Monotone

\* C3 amended: the branches are tried in order (0 for value <= low; otherwise
\* 25 for value >= high; otherwise the two interpolations), and a segment
\* narrower than 1e-9 is interpolated as if it were 1e-9 wide; the result is
\* non-decreasing in value.
C3_ScaleShape ==
    (scLast.made /\ Ordered(scTh)) =>
        LET v == scLast.value
            r == scLast.result
            low == scTh["low"]
            mid == scTh["mid"]
            high == scTh["high"]
            lowEnd == IF Le(EPS, Sub(mid, low)) THEN mid ELSE Add(low, EPS)
            midEnd == IF Le(EPS, Sub(high, mid)) THEN high ELSE Add(mid, EPS)
        IN  /\ Le(v, low) => r = Num(0)
            /\ (Lt(low, v) /\ Le(high, v)) => r = Num(25)
            /\ (Lt(low, v) /\ Lt(v, high) /\ Le(v, mid)) => OnLine(r, v, low, lowEnd, Num(0))
            /\ (Lt(low, v) /\ Lt(v, high) /\ Lt(mid, v)) => OnLine(r, v, mid, midEnd, HALF)
            /\ Monotone

\* Two calls with increasing values, the later one inside a segment narrower
\* than 1e-9.
C3_Witness ==
    /\ scPrev.made
    /\ scLast.made
    /\ Ordered(scTh)
    /\ grid = "quarternano"
    /\ Lt(scPrev.value, scLast.value)
    /\ Lt(scTh["mid"], scLast.value)
    /\ Lt(scLast.value, scTh["high"])
    /\ Sub(scTh["high"], scTh["mid"]) = Num(2)
    /\ scLast.result = Add(HALF, Q(25, 8))
    /\ Lt(Num(0), scPrev.result)

(***************************************************************************)
(* Claims about _score_desperate (checked under SpecDesperate).            *)
(***************************************************************************)
\* Bin mode: a pain count that is a number.
BinMode == dsRet # Idle /\ dsArgs.pain_mentions # PyNone /\ ~IsNaN(dsArgs.pain_mentions)

HeuristicMode == dsRet # Idle /\ ~BinMode

ArgBins == Get(dsArgs.desperate_cfg, "bins", <<>>)

ArgTokens == Get(dsArgs.desperate_cfg, "heuristics_keywords", <<>>)

\* C4: in bin mode the score is that of the first bin, in configured order,
\* whose max is >= the pain count; the last configured bin's score when no bin
\* matches; 0 when there are no bins.  Default bins: 0, 5, 100 give 4, 17, 25.
C4_BinOrder ==
    (BinMode /\ \A i \in 1..Len(ArgBins) : "max" \in DOMAIN ArgBins[i]) =>
        LET pain == dsArgs.pain_mentions
            fits == {i \in 1..Len(ArgBins) : ~Lt(ArgBins[i]["max"], pain)}
        IN  /\ \A i \in fits :
                   (\A j \in fits : i <= j) => dsRet.score = ArgBins[i]["score"]
            /\ (fits = {} /\ Len(ArgBins) > 0) => dsRet.score = ArgBins[Len(ArgBins)]["score"]
            /\ Len(ArgBins) = 0 => dsRet.score = Num(0)
            /\ (ArgBins = DefaultBins /\ pain = Num(0)) => dsRet.score = Num(4)
            /\ (ArgBins = DefaultBins /\ pain = Num(5)) => dsRet.score = Num(17)
            /\ (ArgBins = DefaultBins /\ pain = Num(100)) => dsRet.score = Num(25)

\* A pain count that fits both bins of a list configured in descending order
\* of max: the first configured bin decided, not the tightest.
C4_Witness ==
    /\ BinMode
    /\ Len(ArgBins) = 2
    /\ "max" \in DOMAIN ArgBins[1]
    /\ "max" \in DOMAIN ArgBins[2]
    /\ Lt(ArgBins[2]["max"], ArgBins[1]["max"])
    /\ Le(dsArgs.pain_mentions, ArgBins[2]["max"])
    /\ ArgBins[1]["score"] # ArgBins[2]["score"]
    /\ dsRet.score = ArgBins[1]["score"]

\* The number of configured tokens (by position) found in the keyword,
\* ignoring case; the empty token is found in every keyword.
TokensFound ==
    Cardinality({i \in 1..Len(ArgTokens) : Contains(Lower(ArgTokens[i]), Lower(dsArgs.keyword))})

NonEmptyTokensFound ==
    Cardinality({i \in 1..Len(ArgTokens) :
        ArgTokens[i] # <<>> /\ Contains(Lower(ArgTokens[i]), Lower(dsArgs.keyword))})

Capped(k) == IF 7 + 3 * k > 25 THEN Num(25) ELSE Num(7 + 3 * k)

\* C6 as stated: in heuristic mode the score is min(25, 7 + 3k), k the number
\* of configured tokens that occur, ignoring case, as a substring of the keyword.
C6_AsStated == HeuristicMode => dsRet.score = Capped(TokensFound)

\* C6 amended: k counts the non-empty configured tokens that occur, ignoring
\* case, as a substring of the keyword; "urgent passport renewal" with the
\* default tokens scores 10.
C6_Heuristic ==
    HeuristicMode =>
        /\ dsRet.score = Capped(NonEmptyTokensFound)
        /\ (dsArgs.keyword = KwUrgent /\ ArgTokens = DefaultHeuristics) => dsRet.score = Num(10)

\* An upper-case keyword matched by lower-case tokens, with an empty token
\* configured beside them.
C6_Witness ==
    /\ HeuristicMode
    /\ dsArgs.keyword = KwShout
    /\ \E i \in 1..Len(ArgTokens) : ArgTokens[i] = <<>>
    /\ NonEmptyTokensFound = 1
    /\ dsRet.score = Num(10)

\* Seven tokens found: the sum 28 is capped at 25.
C6_WitnessCap == HeuristicMode /\ NonEmptyTokensFound = 7 /\ dsRet.score = Num(25)

(***************************************************************************)
(* Claims about score_row (checked under SpecRow).                         *)
(***************************************************************************)
Called == rwRet # Idle

Scored == rwRet # Idle /\ rwRet.status = "ok"

ArgKeyword == Strip(Str(rwArgs.row.keyword))

ArgAxis(name) == rwArgs.cfg.thresholds[name].m

InScoreRange(x) == Le(Num(0), x) /\ Le(x, Num(25))

\* The precondition of C1 on the configuration.
WithinContract(cfg) ==
    /\ \A k \in DOMAIN cfg.weights : Le(Num(0), cfg.weights[k])
    /\ \A a \in DOMAIN cfg.thresholds : cfg.thresholds[a].t = "map"
    /\ LET payers == cfg.thresholds.who_pays.m
           table == Get(payers, "map", <<>>)
           bins == Get(cfg.thresholds.desperate.m, "bins", <<>>)
       IN  /\ \A i \in 1..Len(table) : InScoreRange(table[i].v)
           /\ InScoreRange(Get(payers, "unknown_default", Num(8)))
           /\ \A i \in 1..Len(bins) : InScoreRange(bins[i]["score"])

\* C1: for every record, every pair of enrichment maps and every configuration
\* with non-negative weights and table, unknown_default and bin scores in
\* [0, 25], score_row returns four axis scores in [0, 25] and an integer total
\* in [0, 100].
C1_AsStated ==
    (Called /\ WithinContract(rwArgs.cfg)) =>
        /\ rwRet.status = "ok"
        /\ InScoreRange(rwRet.large)
        /\ InScoreRange(rwRet.early)
        /\ InScoreRange(rwRet.who_pays)
        /\ InScoreRange(rwRet.desperate)
        /\ rwRet.total \in 0..100

\* The sum of every value of the weights mapping, term by term.
WeightNames == {"large", "early", "who_pays", "desperate", "bonus"}

ArgWeight(name) == Get(rwArgs.cfg.weights, name, Num(0))

ArgWeightSum ==
    Add(Add(Add(Add(ArgWeight("large"), ArgWeight("early")), ArgWeight("who_pays")),
            ArgWeight("desperate")), ArgWeight("bonus"))

\* 4 * (weighted sum of the returned axis scores) / total_weight
Exact ==
    LET tw == IF ArgWeightSum = Num(0) THEN Num(1) ELSE ArgWeightSum
        ws == Add(Add(Add(Mul(rwRet.large, ArgWeight("large")),
                          Mul(rwRet.early, ArgWeight("early"))),
                      Mul(rwRet.who_pays, ArgWeight("who_pays"))),
                  Mul(rwRet.desperate, ArgWeight("desperate")))
    IN  Div(Mul(Num(4), ws), tw)

\* Twice the distance from the total to the exact value, in units of 1/Exact.d.
TwiceOff == 2 * Abs(rwRet.total * Exact.d - Exact.n)

EndToEndFull ==
    /\ rwArgs.cfg = DEFAULT_CONFIG
    /\ rwArgs.row.keyword = PyStr(KwTherapy)
    /\ rwArgs.row.avg_volume = PyInt(70)
    /\ rwArgs.row.growth_pct = PyInt(90)
    /\ rwArgs.pain_map = (KwTherapy :> PyInt(12) @@ KwUrgent :> PyInt(0))
    /\ rwArgs.buyer_map = (KwTherapy :> PyStr(<<"e", "n", "t", "e", "r", "p", "r", "i", "s", "e">>))

EndToEndBare ==
    /\ rwArgs.cfg = DEFAULT_CONFIG
    /\ rwArgs.row = [keyword |-> PyStr(KwUrgent), avg_volume |-> PyStr(<<"2", "0">>),
                     growth_pct |-> PyStr(<<"5", "0">>)]
    /\ rwArgs.pain_map = <<>>
    /\ rwArgs.buyer_map = <<>>

\* C2: the total is round(4 * weighted sum / total_weight), total_weight the sum
\* of all weights or 1.0 when that is zero, rounded to the nearest integer with
\* ties to the even one; (25,25,25,25) under the default weights gives 100,
\* all-zero scores give 0, and the two documented records give 97 and 40.
C2_Total ==
    Scored =>
        /\ DOMAIN rwArgs.cfg.weights \subseteq WeightNames
        /\ TwiceOff <= Exact.d
        /\ TwiceOff = Exact.d => rwRet.total % 2 = 0
        /\ ( /\ rwArgs.cfg.weights = DEFAULT_CONFIG.weights
             /\ \A x \in {rwRet.large, rwRet.early, rwRet.who_pays, rwRet.desperate} : x = Num(25) )
               => rwRet.total = 100
        /\ (\A x \in {rwRet.large, rwRet.early, rwRet.who_pays, rwRet.desperate} : x = Num(0))
               => rwRet.total = 0
        /\ EndToEndFull =>
               /\ <<rwRet.large, rwRet.early, rwRet.who_pays, rwRet.desperate>>
                      = <<Num(25), Num(25), Num(25), Num(22)>>
               /\ rwRet.total = 97
        /\ EndToEndBare =>
               /\ <<rwRet.large, rwRet.early, rwRet.who_pays, rwRet.desperate>>
                      = <<Q(25, 4), Q(125, 8), Num(8), Num(10)>>
               /\ rwRet.total = 40

\* A total decided by a tie: 52.5 rounded to 52.
C2_Witness == Scored /\ Exact = Q(105, 2) /\ rwRet.total = 52

\* The other cases C2 names are reached too.
C2_WitnessCases ==
    \/ Scored /\ EndToEndFull
    \/ Scored /\ EndToEndBare
    \/ Scored /\ rwRet.desperate = Num(0) /\ rwRet.large = Num(0) /\ rwRet.total = 0

\* The value the pain map holds for the record's keyword, None when it holds none.
ArgPain ==
    IF ArgKeyword # <<>> /\ Lower(ArgKeyword) \in DOMAIN rwArgs.pain_map
    THEN rwArgs.pain_map[Lower(ArgKeyword)] ELSE PyNone

\* A pain value that is a number (an int, a float that is not NaN, or text
\* that float() reads as one).
UsablePain ==
    /\ ArgPain # PyNone
    /\ ArgPain # PyStr(<<>>)
    /\ ToFloat(ArgPain).ok
    /\ ~IsNaN(ToFloat(ArgPain).f)

\* The score of the first bin, in configured order, whose max is >= pain; of
\* the last bin when none is; 0 without bins.
FirstFitScore(pain, bins) ==
    LET fits == {i \in 1..Len(bins) : ~Lt(bins[i]["max"], pain)}
    IN  IF fits # {} THEN bins[CHOOSE i \in fits : \A j \in fits : i <= j]["score"]
        ELSE IF Len(bins) > 0 THEN bins[Len(bins)]["score"]
        ELSE Num(0)

TokenHits(tokens, keyword) ==
    Cardinality({i \in 1..Len(tokens) :
        tokens[i] # <<>> /\ Contains(Lower(tokens[i]), Lower(keyword))})

\* C5: when the pain map holds a usable number for the record's keyword, 0
\* included, the desperate axis comes from the bins whatever tokens the keyword
\* contains; the keyword heuristic decides only when there is no such value.
C5_PainFirst ==
    Scored =>
        LET cfg == ArgAxis("desperate")
        IN  IF UsablePain
            THEN rwRet.desperate = FirstFitScore(ToFloat(ArgPain).f, Get(cfg, "bins", <<>>))
            ELSE rwRet.desperate
                    = Capped(TokenHits(Get(cfg, "heuristics_keywords", <<>>), ArgKeyword))

\* A pain count of 0 for "urgent passport renewal": the bins give 4 where the
\* heuristic would give 10.
C5_Witness ==
    /\ Scored
    /\ ArgKeyword = KwUrgent
    /\ ArgPain = PyInt(0)
    /\ rwArgs.cfg = DEFAULT_CONFIG
    /\ rwRet.desperate = Num(4)

\* The category C7 describes: the buyer map's entry for the lower-cased keyword
\* when present and non-empty, else the record's buyer field when present.
ArgMapped ==
    IF ArgKeyword # <<>> /\ Lower(ArgKeyword) \in DOMAIN rwArgs.buyer_map
    THEN rwArgs.buyer_map[Lower(ArgKeyword)] ELSE PyNone

HasCategory == (ArgMapped # PyNone /\ ArgMapped # PyStr(<<>>)) \/ "buyer" \in DOMAIN rwArgs.row

Category ==
    IF ArgMapped # PyNone /\ ArgMapped # PyStr(<<>>) THEN ArgMapped ELSE rwArgs.row.buyer

\* C7: who_pays is the table score of the category (trimmed, lower-cased,
\* matched ignoring case), the category taken from the buyer map or else from
\* the record; unknown_default in every other case, whatever the table holds.
C7_AsStated ==
    Scored =>
        LET payers == ArgAxis("who_pays")
            table == Get(payers, "map", <<>>)
            unknown == Get(payers, "unknown_default", Num(8))
            wanted == Lower(Strip(Str(Category)))
            hits == {i \in 1..Len(table) : Lower(Strip(table[i].k)) = wanted}
        IN  IF HasCategory /\ hits # {}
            THEN \E i \in hits : rwRet.who_pays = table[i].v
            ELSE rwRet.who_pays = unknown

(***************************************************************************)
(* Claims about load_config (checked under SpecConfig).                    *)
(***************************************************************************)
ConfigCalled == lcRet # Idle

\* The override document as the parser of the build hands it over.
ArgDocument == Loaded(lcArgs.path).value

\* The call was given a file whose parse is a mapping.
MappingOverride ==
    /\ ConfigCalled
    /\ lcArgs.path # PyNone
    /\ lcArgs.path.t = "file"
    /\ Loaded(lcArgs.path).ok
    /\ ArgDocument.t = "map"

ArgSection(name) == Get(ArgDocument.m, name, <<>>)

\* m is base overwritten key by key with over.
Overwritten(m, base, over) ==
    /\ DOMAIN m = DOMAIN base \cup DOMAIN over
    /\ \A k \in DOMAIN over : m[k] = over[k]
    /\ \A k \in DOMAIN base \ DOMAIN over : m[k] = base[k]

NotAMapping(value) == value.t \in {"list", "bool", "int"}

\* C9: load_config fails with a configuration error, returning nothing, when
\* the parsed override is not a mapping at the top level (list, scalar, empty
\* list, false, 0) and when the path is named but no file exists; it never goes
\* on with the defaults.
C9_AsStated ==
    (ConfigCalled /\ lcArgs.path # PyNone) =>
        /\ lcArgs.path.t = "missing" => lcRet = ConfigError
        /\ (lcArgs.path.t = "file" /\ NotAMapping(lcArgs.path.value)) => lcRet = ConfigError

(***************************************************************************)
(* Claims about load_optional_csv (checked under SpecCsv).                 *)
(***************************************************************************)
CsvRead == csvRet # Idle /\ csvRet.status = "ok" /\ csvArgs.path # PyNone

ArgLines == csvArgs.path.lines

ArgHeader == csvArgs.path.fieldnames

\* The position of the keyword column and of the other column in a header
\* that load_optional_csv accepts.
KeywordAt == CHOOSE i \in 1..Len(ArgHeader) : ArgHeader[i] = "keyword"

ValueAt == CHOOSE i \in 1..Len(ArgHeader) : ArgHeader[i] # "keyword"

Blank(text) == \A j \in 1..Len(text) : text[j] \in Whitespace

\* Row i has a keyword that is not blank and a value that is not blank.
Usable(i) ==
    /\ Len(ArgLines[i]) >= KeywordAt
    /\ Len(ArgLines[i]) >= ValueAt
    /\ ~Blank(ArgLines[i][KeywordAt])
    /\ ~Blank(ArgLines[i][ValueAt])

RowKey(i) == Lower(Strip(ArgLines[i][KeywordAt]))

\* C10: the mapping has exactly one entry per distinct trimmed, lower-cased
\* keyword that has a row with a non-blank keyword and a non-blank value, and
\* the entry is the coerced value (int, else float, else trimmed text) of the
\* last such row; other rows change nothing; a numeric zero is kept.
C10_LastUsableRow ==
    CsvRead =>
        LET usable == {i \in 1..Len(ArgLines) : Usable(i)}
            got == csvRet.mapping
        IN  /\ DOMAIN got = {RowKey(i) : i \in usable}
            /\ \A i \in usable :
                   (\A j \in usable : RowKey(j) = RowKey(i) => j <= i) =>
                       LET cell == ArgLines[i][ValueAt]
                           entry == got[RowKey(i)]
                       IN  /\ entry = Coerce(PyStr(cell))
                           /\ cell = <<"1", "2">> => entry = PyInt(12)
                           /\ cell = <<" ", "0">> => entry = PyInt(0)
                           /\ cell = <<"1", ".", "5">> => entry = PyFloat(Q(3, 2))
                           /\ cell = <<"x", " ">> => entry = PyStr(<<"x">>)

\* Two rows for the same keyword in different spellings, the later one with a
\* blank value: the entry of the earlier row, a zero, stays.
C10_Witness ==
    /\ CsvRead
    /\ Len(ArgLines) = 2
    /\ Usable(1)
    /\ Len(ArgLines[2]) = 2
    /\ ~Blank(ArgLines[2][KeywordAt])
    /\ Blank(ArgLines[2][ValueAt])
    /\ ArgLines[1][KeywordAt] # ArgLines[2][KeywordAt]
    /\ RowKey(1) = RowKey(2)
    /\ csvRet.mapping[RowKey(1)] = PyInt(0)

\* Two usable rows for the same keyword: the later value replaced the earlier.
C10_WitnessOverwrite ==
    /\ CsvRead
    /\ Len(ArgLines) = 2
    /\ Usable(1)
    /\ Usable(2)
    /\ RowKey(1) = RowKey(2)
    /\ Coerce(PyStr(ArgLines[1][ValueAt])) # Coerce(PyStr(ArgLines[2][ValueAt]))
    /\ csvRet.mapping[RowKey(1)] = Coerce(PyStr(ArgLines[2][ValueAt]))

\* C16: load_optional_csv raises its format error, and returns no map, exactly
\* when the side table's header has no keyword column or does not have exactly
\* one column other than keyword; with no side table named it returns the
\* empty map.
OtherColumns(header) == {i \in 1..Len(header) : header[i] # "keyword"}

HasKeywordColumn(header) == \E i \in 1..Len(header) : header[i] = "keyword"

C16_FormatErrors ==
    csvRet # Idle =>
        /\ csvArgs.path = PyNone => csvRet = Mapped(<<>>)
        /\ csvArgs.path.t = "file" =>
              (csvRet = CsvError
                  <=> \/ ~HasKeywordColumn(csvArgs.path.fieldnames)
                      \/ Cardinality(OtherColumns(csvArgs.path.fieldnames)) # 1)

\* A table with a keyword column, two other columns and a usable row is refused.
C16_Witness ==
    /\ csvRet = CsvError
    /\ csvArgs.path.t = "file"
    /\ HasKeywordColumn(csvArgs.path.fieldnames)
    /\ Cardinality(OtherColumns(csvArgs.path.fieldnames)) = 2
    /\ Len(csvArgs.path.lines) >= 1
    /\ Len(csvArgs.path.lines[1]) = 2
    /\ ~Blank(csvArgs.path.lines[1][1])
    /\ ~Blank(csvArgs.path.lines[1][2])

C16_WitnessNoKeyword ==
    /\ csvRet = CsvError
    /\ csvArgs.path.t = "file"
    /\ csvArgs.path.fieldnames # <<>>
    /\ ~HasKeywordColumn(csvArgs.path.fieldnames)

C16_WitnessNoTable == csvArgs # Idle /\ csvArgs.path = PyNone /\ csvRet = Mapped(<<>>)

(***************************************************************************)
(* More claims about score_row (checked under SpecRow).                    *)
(***************************************************************************)
\* float(value or 0) raises for the value: it is truthy and not a number's text.
Uncoercible(v) == Truthy(v) /\ ~ToFloat(v).ok

\* The record with every measure that cannot be coerced taken as zero.
Zeroed(row) ==
    [k \in DOMAIN row |->
        IF k \in {"avg_volume", "growth_pct"} /\ Uncoercible(row[k]) THEN PyInt(0) ELSE row[k]]

\* C11 as stated: a record whose avg_volume or growth_pct cannot be coerced to
\* a number is scored, score_row raising nothing, with that measure taken as
\* zero.
C11_AsStated ==
    (Called /\ (Uncoercible(rwArgs.row.avg_volume) \/ Uncoercible(rwArgs.row.growth_pct))) =>
        /\ rwRet.status = "ok"
        /\ LET zero == score_row(Zeroed(rwArgs.row), rwArgs.cfg, rwArgs.pain_map, rwArgs.buyer_map)
           IN  /\ rwRet.large = zero.large
               /\ rwRet.early = zero.early
               /\ rwRet.who_pays = zero.who_pays
               /\ rwRet.desperate = zero.desperate
               /\ rwRet.total = zero.total

\* What the code does with such a record: float() raises ValueError.
C11_Raises ==
    (Called /\ (Uncoercible(rwArgs.row.avg_volume) \/ Uncoercible(rwArgs.row.growth_pct))) =>
        rwRet.status = "ValueError"

(***************************************************************************)
(* More claims about _piecewise_scale (checked under SpecScale).           *)
(***************************************************************************)
\* The thresholds as the scaler reads them, absent points defaulted.
LastLow == Get(scTh, "low", Num(0))

LastMid == Get(scTh, "mid", LastLow)

LastHigh == Get(scTh, "high", LastMid)

\* The last call took an interpolation branch.
Interpolated == scLast.made /\ ~Le(scLast.value, LastLow) /\ ~Le(LastHigh, scLast.value)

\* The span that branch divides by.
LastSpan ==
    IF Le(scLast.value, LastMid) THEN PyMax(Sub(LastMid, LastLow), EPS)
    ELSE PyMax(Sub(LastHigh, LastMid), EPS)

\* C19 as stated: for every value and every thresholds mapping (degenerate,
\* non-monotone or with points missing) the scaler returns a result in
\* [0, 25], and an interpolation branch divides by a strictly positive span.
C19_AsStated ==
    scLast.made =>
        /\ InScoreRange(scLast.result)
        /\ Interpolated => Lt(Num(0), LastSpan)

\* What holds: the span is always positive, and the result is in [0, 25] for
\* every value that is a number.
C19_Numbers ==
    scLast.made =>
        /\ ~IsNaN(scLast.value) => InScoreRange(scLast.result)
        /\ IsNaN(scLast.value) => IsNaN(scLast.result)
        /\ Interpolated => Lt(Num(0), LastSpan)

(***************************************************************************)
(* Claims about score_file (checked under SpecFile).                       *)
(***************************************************************************)
FileDone == fPc = "done"

\* The four loads succeeded: there is a batch to score.
AllLoaded == fBuyer # Idle /\ fBuyer.status = "ok"

Ended == fPc \in {"done", "raised"}

\* The place of scored record i in the ranking: one more than the number of
\* records with a greater total, or an equal total and an earlier position.
Place(i) ==
    1 + Cardinality({j \in 1..Len(fScored) :
                        \/ TotalOf(fScored[j]) > TotalOf(fScored[i])
                        \/ TotalOf(fScored[j]) = TotalOf(fScored[i]) /\ j < i})

\* min(max(1, N), batch size), 0 for the empty batch.
PreviewSize ==
    LET n == Len(fScored)
        asked == IF fArgs.top > 1 THEN fArgs.top ELSE 1
    IN  IF n = 0 THEN 0 ELSE IF asked < n THEN asked ELSE n

\* C12: the preview of a scored batch is the first min(max(1, N), batch size)
\* records of the batch in descending order of total, records of equal total
\* in input order; the preview of an empty batch has no records.
C12_Preview ==
    FileDone =>
        /\ Len(fPreview) = PreviewSize
        /\ \A i \in 1..Len(fScored) :
              Place(i) <= PreviewSize => fPreview[Place(i)] = TableRow(fScored[i])

\* Two records of equal total that differ, both shown, the earlier one first.
C12_Witness ==
    /\ FileDone
    /\ Len(fScored) = 2
    /\ Len(fPreview) = 2
    /\ TotalOf(fScored[1]) = TotalOf(fScored[2])
    /\ TableRow(fScored[1]) # TableRow(fScored[2])
    /\ fPreview[1] = TableRow(fScored[1])

\* The lower total came first in the batch and the preview was asked with
\* N <= 0: it shows the one record with the higher total.
C12_WitnessClamped ==
    /\ FileDone
    /\ fArgs.top <= 0
    /\ Len(fScored) = 2
    /\ TotalOf(fScored[1]) < TotalOf(fScored[2])
    /\ fPreview = <<TableRow(fScored[2])>>

C12_WitnessEmpty == FileDone /\ fScored = <<>> /\ fPreview = <<>> /\ fArgs.top >= 1

\* C13 as stated: score_file persists one output record per input record, in
\* input order, whatever N is; each output record has every original column
\* with its original value, followed by the five score columns in their order.
C13_AsStated ==
    (Ended /\ AllLoaded) =>
        /\ fOut.t = "file"
        /\ Len(fOut.lines) = Len(fRows.rows)
        /\ fRows.rows # <<>> => fOut.fieldnames = fRows.columns \o ScoreColumns
        /\ \A i \in 1..Len(fRows.rows) :
              \A c \in Range(fRows.columns) : fOut.lines[i][c] = fRows.rows[i][c]

\* What holds: when score_file returns, the file has one record per input
\* record, in input order, whatever N is, with every original column that is
\* not a score column at its original value and the score columns that the
\* input lacks appended in their order.
C13_Persisted ==
    FileDone =>
        /\ fOut.t = "file"
        /\ Len(fOut.lines) = Len(fRows.rows)
        /\ fRows.rows # <<>> =>
              fOut.fieldnames = fRows.columns
                  \o SelectSeq(ScoreColumns, LAMBDA c : c \notin Range(fRows.columns))
        /\ \A i \in 1..Len(fRows.rows) :
              /\ DOMAIN fOut.lines[i] = Range(fRows.columns) \cup Range(ScoreColumns)
              /\ \A c \in Range(fRows.columns) \ Range(ScoreColumns) :
                    fOut.lines[i][c] = fRows.rows[i][c]

\* The same when no record raises and no input column is a score column.
C13_Reached ==
    /\ FileDone
    /\ Len(fRows.rows) = 2
    /\ Range(fRows.columns) \cap Range(ScoreColumns) = {}
    /\ C13_AsStated

Events(name) == {p \in 1..Len(fLog) : fLog[p] = name}

Loads == {"load_config", "load_trends", "load_pain", "load_buyers"}

LoadFailed == \E r \in {fCfg, fRows, fPain, fBuyer} : r # Idle /\ r.status # "ok"

\* C18: each of the four loads happens once, and before any record is scored;
\* every record is scored before anything is written; when a load fails no
\* record is scored and the output file is neither created nor modified.
C18_LoadOrder ==
    /\ \A name \in Loads : Cardinality(Events(name)) <= 1
    /\ \A p \in Events("score_row") :
          /\ \A name \in Loads : \E q \in Events(name) : q < p
          /\ ~LoadFailed
    /\ \A p \in Events("save_scored") :
          /\ Cardinality({q \in Events("score_row") : q < p}) = Len(fRows.rows)
          /\ Len(fScored) = Len(fRows.rows)
          /\ \A q \in Events("score_row") : q < p
    /\ fOut # fArgs.existing => Events("save_scored") # {}
    /\ LoadFailed =>
          /\ fPc = "raised"
          /\ Events("score_row") = {}
          /\ fScored = <<>>
          /\ fOut = fArgs.existing

\* Two records scored, then the file written over an earlier one.
C18_Witness ==
    /\ FileDone
    /\ Len(fRows.rows) = 2
    /\ fArgs.existing.t = "file"
    /\ fOut # fArgs.existing
    /\ fLog = <<"load_config", "load_trends", "load_pain", "load_buyers", "score_row",
                "score_row", "save_scored", "preview">>

\* The last load fails with a batch of two records loaded and a file in place.
C18_WitnessFailed ==
    /\ fPc = "raised"
    /\ fBuyer # Idle
    /\ fBuyer.status # "ok"
    /\ Len(fRows.rows) = 2
    /\ fArgs.existing.t = "file"

SameKeyword(a, b) == Lower(Strip(a)) = Lower(Strip(b))

\* The positions of the first occurrences of the distinct keywords that are
\* not blank.
FirstOccurrences ==
    {i \in 1..Len(ckArgs.keywords) :
        /\ Strip(ckArgs.keywords[i]) # <<>>
        /\ \A j \in 1..(i - 1) : ~SameKeyword(ckArgs.keywords[j], ckArgs.keywords[i])}

\* The place of first occurrence i among the first occurrences.
Turn(i) == Cardinality({j \in FirstOccurrences : j <= i})

\* C17: collect_keywords queries the client once per distinct keyword
\* (keywords compared trimmed and case-insensitively) with the trimmed
\* spelling of its first occurrence, skips blank keywords, and returns one row
\* per distinct keyword in first-occurrence order.
C17_OncePerKeyword ==
    /\ \A p, q \in 1..Len(ckCalls) : SameKeyword(ckCalls[p], ckCalls[q]) => p = q
    /\ ckPc = "returned" =>
          /\ Len(ckCalls) = Cardinality(FirstOccurrences)
          /\ Len(ckRecords) = Cardinality(FirstOccurrences)
          /\ \A i \in FirstOccurrences :
                /\ ckCalls[Turn(i)] = Strip(ckArgs.keywords[i])
                /\ ckRecords[Turn(i)].keyword = Strip(ckArgs.keywords[i])

\* Three spellings of one keyword and a blank one: one query, one row.
C17_Witness ==
    /\ ckPc = "returned"
    /\ ckArgs.keywords = << <<"A", "i">>, <<" ", "a", "I", " ">>, <<" ">> >>
    /\ ckCalls = << <<"A", "i">> >>
    /\ Len(ckRecords) = 1

\* Two distinct keywords, the second one met in its spaced spelling first.
C17_WitnessOrder ==
    /\ ckPc = "returned"
    /\ ckArgs.keywords = << <<"b">>, <<" ", "a", "I", " ">>, <<"a", "i">> >>
    /\ ckCalls = << <<"b">>, <<"a", "I">> >>

(***************************************************************************)
(* Claims about interest_over_time (checked under SpecRetryLive).          *)
(***************************************************************************)
RetryEnded == rtPc \in {"returned", "raised"}

\* The attempts so far that failed.
Failed == {k \in 1..Len(rtUpstream) : rtUpstream[k] # "data"}

\* The pauses taken so far are those after failed attempts k < R, each of
\* backoff ** (k - 1).
Pauses ==
    /\ \A k \in 1..Len(rtSleeps) : k \in Failed /\ k < rtArgs.retries
    /\ \A k \in 1..Len(rtSleeps) : rtSleeps[k] = Pow(rtArgs.backoff, k - 1)
    /\ \A k \in Failed : (k < rtArgs.retries /\ (k < Len(rtUpstream) \/ RetryEnded)) => k <= Len(rtSleeps)

C20_Safe ==
    /\ Len(rtUpstream) <= rtArgs.retries
    /\ \A k \in 1..(Len(rtUpstream) - 1) : k \in Failed
    /\ Pauses
    /\ rtPc = "returned" =>
          /\ rtUpstream[Len(rtUpstream)] = "data"
          /\ rtRet = [status |-> "ok", frame |-> Len(rtUpstream)]
    /\ rtPc = "raised" =>
          /\ Len(rtUpstream) = rtArgs.retries
          /\ Failed = 1..rtArgs.retries
          /\ Len(rtSleeps) = rtArgs.retries - 1
          /\ rtRet.status = "TrendCollectionError"
    /\ (Failed = 1..rtArgs.retries) => rtPc = "raised"

\* C20: a call with retries = R >= 1 ends after at most R upstream attempts:
\* it returns the frame of the first attempt with data and attempts no more;
\* after failed attempt k it sleeps backoff ** (k - 1) only if k < R; when all
\* R attempts fail it raises TrendCollectionError with no sleep after the last.
C20_Retry == []C20_Safe /\ <>RetryEnded /\ [][RetryEnded => UNCHANGED retryVars]_vars

\* Three attempts, two pauses of 1 and 1/2, then the error.
C20_Witness ==
    /\ rtPc = "raised"
    /\ rtArgs.retries = 3
    /\ rtArgs.backoff = Q(1, 2)
    /\ rtSleeps = <<Num(1), Q(1, 2)>>
    /\ Len(rtUpstream) = 3

\* Data at the second of three attempts: one pause, no third attempt.
C20_WitnessReturn ==
    /\ rtPc = "returned"
    /\ rtArgs.retries = 3
    /\ rtArgs.backoff = Num(2)
    /\ rtUpstream = <<"empty", "data">>
    /\ rtSleeps = <<Num(1)>>

(***************************************************************************)
(* Claims about load_config's objects (checked under SpecHeap).            *)
(***************************************************************************)
DefaultObjects == DOMAIN ImportedHeap

Returns == 1..Len(hpReturned)

\* The objects returned configuration i leads to.
Owned(i) == Reach(hpHeap, hpReturned[i].val)

\* Some returned configuration has been written into.
SomeWritten ==
    \E i \in Returns : \E id \in Owned(i) :
        \E k \in DOMAIN hpHeap[id].items : hpHeap[id].items[k] = Atom("written")

\* C14: whatever load_config calls and writes into returned configurations
\* have happened, DEFAULT_CONFIG is as it was built, every call without a
\* path returned (and the next one returns) a configuration equal to the
\* defaults, and no returned configuration shares an object with
\* DEFAULT_CONFIG or with another returned configuration.
C14_NoSharing ==
    /\ \A id \in DefaultObjects : hpHeap[id] = ImportedHeap[id]
    /\ Dumps(hpHeap, DefaultRoot) = DefaultDocument
    /\ \A i \in Returns : hpReturned[i].path = "none" => hpReturned[i].document = DefaultDocument
    /\ LET again == load_config_objects(hpHeap, hpSteps + 1, "none")
       IN  /\ again.status = "ok"
           /\ Dumps(again.heap, again.val) = DefaultDocument
           /\ Reach(again.heap, again.val) \cap Reach(hpHeap, DefaultRoot) = {}
           /\ \A i \in Returns : Reach(again.heap, again.val) \cap Owned(i) = {}
    /\ \A i \in Returns : Owned(i) \cap DefaultObjects = {}
    /\ \A i, j \in Returns : i # j => Owned(i) \cap Owned(j) = {}

\* A configuration loaded with overrides, a write into it, then a call
\* without a path.
C14_Witness ==
    /\ Len(hpReturned) = 2
    /\ hpReturned[1].path = "override"
    /\ hpReturned[2].path = "none"
    /\ Dumps(hpHeap, hpReturned[1].val) # hpReturned[1].document
    /\ SomeWritten

\* Two default configurations, the first written into before the second
\* was made.
C14_WitnessDefaults ==
    /\ Len(hpReturned) = 2
    /\ hpReturned[1].path = "none"
    /\ hpReturned[2].path = "none"
    /\ Dumps(hpHeap, hpReturned[1].val) # DefaultDocument
    /\ Dumps(hpHeap, hpReturned[2].val) = DefaultDocument

====
